---------------------------- MODULE Spec2Model ----------------------------
(***************************************************************************)
(* Proof-of-History entry engine (src/src/entry.rs): entry construction,    *)
(* the transaction packer, blob framing and slice verification.             *)
(*                                                                          *)
(* Hashes are symbolic terms: SHA-256 is idealised as a collision-free      *)
(* function, so two hashes are equal exactly when they were computed the    *)
(* same way from the same inputs.                                           *)
(***************************************************************************)
EXTENDS Integers, Sequences, FiniteSets, TLC

(***************************************************************************)
(* Bounds of the model.                                                     *)
(***************************************************************************)
\* longest transaction list handed to the packer
MaxTxs == 4
\* largest accumulated num_hashes handed to the producer
MaxHashes == 2
\* room a blob leaves for transactions beyond the fixed entry header
BlobBudget == 6
\* entries beyond one per transaction the packer is followed for
MaxSpin == 2
\* longest transaction list handed to Entry::new in the entry checks
MaxEntryTxs == 3
\* longest entry slice handed to the verifier checks
MaxSlice == 3
\* most copies of one transaction handed to the packer
MaxCopies == 5
\* batches the producer is followed for on the publication channel
MaxBatches == 4
\* system contract transactions processed in a row
MaxSysTxs == 3
\* width of an account's tokens, standing for the 64 bits of i64
TokenBits == 3
\* calls made in a row on one producer state
MaxCalls == 2
\* longest transaction list of a call in a row of calls
MaxCallTxs == 2
\* sends of vote_account_new that are counted
MaxAttempts == 3
\* last ids the client may answer with
MaxLastIds == 2
\* largest balance the client may answer with
MaxBalance == 3

(***************************************************************************)
(* State.                                                                   *)
(***************************************************************************)
\* the producer
VARIABLES
    pc,              \* where the producer is
    api,             \* the function that was called
    start_hash,      \* the producer's hash state (&mut start_hash)
    num_hashes,      \* the producer's accumulator (&mut num_hashes)
    call_hash,       \* start_hash when the call was made
    call_num_hashes, \* num_hashes when the call was made
    call_tick,       \* the tick_height handed to Entry::new
    transactions,    \* the transactions handed to the call
    chunk_start, chunk_end, upper, lower, next,  \* the packer's locals
    entries,         \* the entries emitted so far / returned
    blobs,           \* the blobs the entries were framed into
    recon,           \* what reconstruct_entries_from_blobs returned
    verdict          \* what EntrySlice::verify returned

pvars == <<pc, api, start_hash, num_hashes, call_hash, call_num_hashes,
           call_tick, transactions, chunk_start, chunk_end, upper, lower,
           next, entries, blobs, recon, verdict>>

\* the entry under test
VARIABLES
    e_pc,      \* "idle", "built", "swapped", "verified" or "panic"
    e_origin,  \* "none", "new" (Entry::new) or "peer" (fields chosen freely)
    e_prev,    \* the prev_id the entry was built on
    e_tick,    \* the tick_height handed to Entry::new
    e_num,     \* the num_hashes handed to Entry::new
    e_txs,     \* the transactions handed to Entry::new
    e_entry,   \* the entry under test
    e_swap,    \* the two positions swapped, <<0, 0>> when none
    e_start,   \* the start hash verify() was given
    e_ok       \* what verify() returned

evars == <<e_pc, e_origin, e_prev, e_tick, e_num, e_txs, e_entry, e_swap,
           e_start, e_ok>>

\* the slice under verification
VARIABLES
    v_pc,       \* "build", "checking" or "done"
    v_entries,  \* the slice
    v_start,    \* the start hash
    v_checked,  \* the pairs some worker has checked
    v_failed,   \* whether a checked pair has failed
    v_result,   \* what verify() returned
    v_tampered  \* the position whose id was replaced after a verify, or 0

vvars == <<v_pc, v_entries, v_start, v_checked, v_failed, v_result,
           v_tampered>>

\* the publication channel
VARIABLES
    ch_queue,  \* the batches sent and not yet received, oldest first
    ch_hash,   \* the id of the last entry the producer published
    ch_sent,   \* how many batches the producer has sent
    ch_got     \* the batch the consumer received last

cvars == <<ch_queue, ch_hash, ch_sent, ch_got>>

\* the accounts the system contract works on
VARIABLES
    s_pc,        \* "ready", or "panicked" once process_transaction panicked
    s_build,     \* "debug" (overflow checks on) or "release" (wrapping)
    s_accounts,  \* accounts[0] and accounts[1]
    s_before,    \* the accounts before the last transaction
    s_first,     \* the accounts before the first transaction
    s_call,      \* the instruction of the last transaction
    s_count      \* how many transactions were processed

svars == <<s_pc, s_build, s_accounts, s_before, s_first, s_call, s_count>>

\* a producer state taken through several calls
VARIABLES
    k_pc,      \* "idle", "returned" or "panic"
    k_first,   \* start_hash before the first call
    k_hash,    \* start_hash
    k_num,     \* num_hashes
    k_ledger,  \* the entries of all calls, in emission order
    k_calls    \* how many calls were made

kvars == <<k_pc, k_first, k_hash, k_num, k_ledger, k_calls>>

\* one call of Entry::num_will_fit
VARIABLES
    f_pc,     \* "idle", "loop" or "returned"
    f_txs,    \* the transactions argument
    f_num,    \* num: the prefix length probed, and the value returned
    f_upper,  \* upper
    f_lower,  \* lower
    f_next    \* next

fvars == <<f_pc, f_txs, f_num, f_upper, f_lower, f_next>>

\* one call of create_and_fund_vote_account
VARIABLES
    a_pc,            \* the position in the function
    a_ret,           \* "none", "ok" or "err": what the function returned
    a_node_balance,  \* node_balance
    a_entered,       \* the creation loop was entered
    a_last_id,       \* last_id of the current iteration
    a_tx,            \* the transaction of the current iteration
    a_attempt,       \* how send, signature poll and balance poll went
    a_attempts,      \* how many transactions were sent, up to MaxAttempts
    a_pause,         \* seconds slept since the last send
    a_userdata       \* what get_account_userdata answered

avars == <<a_pc, a_ret, a_node_balance, a_entered, a_last_id, a_tx,
           a_attempt, a_attempts, a_pause, a_userdata>>

vars == <<pvars, evars, vvars, cvars, svars, kvars, fvars, avars>>

(***************************************************************************)
(* Hash (solana_sdk::hash) and the PoH state (crate::poh).                  *)
(***************************************************************************)
\* Hash::default()
Zero == <<"zero">>

\* hash(x): SHA-256 of one value
hash(x) == <<"sha256", x>>

\* hashv(x, m): SHA-256 of the two values one after the other
hashv(x, m) == <<"sha256", x, m>>

\* one = hash(zero), the second seed the tests use
One == hash(Zero)

\* the well-known constant tick() mixes in
TickMarker == <<"tick_marker">>

\* Poh::new(seed, counter)
Poh_new(seed, counter) == [id |-> seed, num_hashes |-> counter]

\* Poh::hash: one empty advance
Poh_hash(poh) == [id |-> hash(poh.id), num_hashes |-> poh.num_hashes + 1]

\* Poh::record: the final mix of a digest; returns the id and the hashes
\* applied since the last emission
Poh_record(poh, mixin) ==
    [id |-> hashv(poh.id, mixin), num_hashes |-> poh.num_hashes + 1]

\* Poh::tick: the final mix of the tick marker
Poh_tick(poh) == Poh_record(poh, TickMarker)

(***************************************************************************)
(* Transactions (solana_sdk::transaction): opaque, with a signature, a      *)
(* kind and a serialized size.                                              *)
(***************************************************************************)
\* a transaction too large for any entry
TxHugeSize == BlobBudget + 1

TxSmall == [kind |-> "system", sig |-> 1, size |-> 2]
TxLarge == [kind |-> "budget", sig |-> 2, size |-> 5]
TxHuge  == [kind |-> "budget", sig |-> 3, size |-> TxHugeSize]

TxVote  == [kind |-> "vote", sig |-> 7, size |-> 3]

\* the transactions the packer is fed
PackerTxs == {TxSmall, TxLarge, TxHuge}

\* the transactions the entry checks use: two system, two witness-style
EntryTxs ==
    {TxSmall, [kind |-> "system", sig |-> 4, size |-> 2],
     [kind |-> "budget", sig |-> 5, size |-> 2],
     [kind |-> "budget", sig |-> 6, size |-> 3]}

\* Transaction::serialized_size
Transaction_serialized_size(tx) == tx.size

\* Transaction::hash: order-sensitive digest of a batch
Transaction_hash(txs) == <<"tx_digest", txs>>

\* all sequences over S of length at most n
SeqUpTo(S, n) == UNION {[1..k -> S] : k \in 0..n}

RECURSIVE SumSizes(_)
SumSizes(txs) ==
    IF txs = <<>> THEN 0
    ELSE Transaction_serialized_size(Head(txs)) + SumSizes(Tail(txs))

(***************************************************************************)
(* Entry (entry.rs).                                                        *)
(***************************************************************************)
\* size_of::<u64>() and size_of::<Hash>()
SizeOfU64 == 8
SizeOfHash == 32

\* the fixed part of a serialized entry
EntryHeaderSize == 3 * SizeOfU64 + SizeOfHash

\* packet::BLOB_DATA_SIZE, scaled: the header plus BlobBudget
BLOB_DATA_SIZE == 56 + BlobBudget

\* Entry::serialized_size, with a defect: the length prefix is not counted
Entry_serialized_size_short(txs) == 2 * SizeOfU64 + SizeOfHash + SumSizes(txs)

\* Entry::serialized_size: the estimate made without building the entry
Entry_serialized_size(txs) == EntryHeaderSize + SumSizes(txs)

RECURSIVE PohHashTimes(_, _)
PohHashTimes(poh, k) ==
    IF k <= 0 THEN poh ELSE PohHashTimes(Poh_hash(poh), k - 1)

\* next_hash, with a defect: only the first transaction is mixed in
next_hash_first_only(start, n, txs) ==
    IF n = 0 /\ txs = <<>> THEN start
    ELSE LET poh == PohHashTimes(Poh_new(start, 0), n - 1)
         IN  IF txs = <<>> THEN Poh_tick(poh).id
             ELSE Poh_record(poh, Transaction_hash(<<Head(txs)>>)).id

\* next_hash, with a defect: the loop runs 0..num_hashes
next_hash_extra(start, n, txs) ==
    IF n = 0 /\ txs = <<>> THEN start
    ELSE LET poh == PohHashTimes(Poh_new(start, 0), n)
         IN  IF txs = <<>> THEN Poh_tick(poh).id
             ELSE Poh_record(poh, Transaction_hash(txs)).id

\* next_hash, with a defect: the last hash is a tick whatever the entry holds
next_hash_always_tick(start, n, txs) ==
    IF n = 0 /\ txs = <<>> THEN start
    ELSE Poh_tick(PohHashTimes(Poh_new(start, 0), n - 1)).id

\* next_hash: the hash num_hashes after start_hash
next_hash(start, n, txs) ==
    IF n = 0 /\ txs = <<>> THEN start
    ELSE LET poh == PohHashTimes(Poh_new(start, 0), n - 1)
         IN  IF txs = <<>> THEN Poh_tick(poh).id
             ELSE Poh_record(poh, Transaction_hash(txs)).id

\* the size check of Entry::new, with a defect: the limit itself is refused
Entry_new_panics_at_limit(txs) ==
    Entry_serialized_size(txs) >= BLOB_DATA_SIZE

\* Entry::new panics when the estimate exceeds the blob
Entry_new_panics(txs) ==
    Entry_serialized_size(txs) > BLOB_DATA_SIZE

\* Entry::new, with a defect: the no-op case is hashed like a tick
Entry_new_always_hashes(prev_id, tick_height, n, txs) ==
    IF n = 0
    THEN [tick_height |-> tick_height, num_hashes |-> 1,
          id |-> next_hash(prev_id, 1, txs),
          transactions |-> txs]
    ELSE [tick_height |-> tick_height, num_hashes |-> n,
          id |-> next_hash(prev_id, n, txs),
          transactions |-> txs]

\* Entry::new, with a defect: num_hashes stays 0 beside transactions
Entry_new_unpromoted(prev_id, tick_height, n, txs) ==
    IF n = 0 /\ txs = <<>>
    THEN [tick_height |-> tick_height, num_hashes |-> 0,
          id |-> prev_id, transactions |-> txs]
    ELSE [tick_height |-> tick_height, num_hashes |-> n,
          id |-> next_hash(prev_id, n, txs),
          transactions |-> txs]

\* Entry::new: the entry returned when it does not panic
Entry_new(prev_id, tick_height, n, txs) ==
    IF n = 0 /\ txs = <<>>
    THEN [tick_height |-> tick_height, num_hashes |-> 0,
          id |-> prev_id, transactions |-> txs]
    ELSE IF n = 0
    THEN [tick_height |-> tick_height, num_hashes |-> 1,
          id |-> next_hash(prev_id, 1, txs),
          transactions |-> txs]
    ELSE [tick_height |-> tick_height, num_hashes |-> n,
          id |-> next_hash(prev_id, n, txs),
          transactions |-> txs]

\* Entry::verify, with a defect: the tick height is counted as hashes
Entry_verify_height(entry, start) ==
    entry.id = next_hash(start, entry.num_hashes + entry.tick_height,
                         entry.transactions)

\* Entry::verify
Entry_verify(entry, start) ==
    entry.id = next_hash(start, entry.num_hashes, entry.transactions)

\* Entry::is_tick, with a defect: an entry without hashes is not a tick
Entry_is_tick_hashed(entry) ==
    entry.transactions = <<>> /\ entry.num_hashes > 0

\* Entry::is_tick
Entry_is_tick(entry) == entry.transactions = <<>>


(***************************************************************************)
(* Serialization (bincode) of an entry, byte for byte:                      *)
(*   tick_height u64 LE | num_hashes u64 LE | id 32 bytes | tx_count u64 LE *)
(*   | tx_count serialized transactions.                                    *)
(* A byte is <<"u8", b>>; the i-th byte of a hash h is <<"hb", h, i>>; the  *)
(* i-th byte of a transaction t is <<"tx", t, i>>.                          *)
(***************************************************************************)
\* v >> (8 * k)
RECURSIVE ShiftBytes(_, _)
ShiftBytes(v, k) == IF k = 0 THEN v ELSE ShiftBytes(v \div 256, k - 1)

EncodeU64(v) == [i \in 1..SizeOfU64 |-> <<"u8", ShiftBytes(v, i - 1) % 256>>]

IsU64(bytes) ==
    /\ Len(bytes) = SizeOfU64
    /\ \A i \in 1..SizeOfU64 : bytes[i][1] = "u8"

RECURSIVE DecodeU64From(_, _)
DecodeU64From(bytes, i) ==
    IF i > SizeOfU64 THEN 0
    ELSE bytes[i][2] + 256 * DecodeU64From(bytes, i + 1)

DecodeU64(bytes) == DecodeU64From(bytes, 1)

EncodeHash(h) == [i \in 1..SizeOfHash |-> <<"hb", h, i>>]

IsHash(bytes) ==
    /\ Len(bytes) = SizeOfHash
    /\ \A i \in 1..SizeOfHash : bytes[i][1] = "hb" /\ bytes[i][3] = i
    /\ \A i \in 1..SizeOfHash : bytes[i][2] = bytes[1][2]

EncodeTx(tx) == [i \in 1..Transaction_serialized_size(tx) |-> <<"tx", tx, i>>]

RECURSIVE EncodeTxs(_)
EncodeTxs(txs) ==
    IF txs = <<>> THEN <<>> ELSE EncodeTx(Head(txs)) \o EncodeTxs(Tail(txs))

\* serialize(&entry)
Serialize(entry) ==
    EncodeU64(entry.tick_height) \o EncodeU64(entry.num_hashes)
        \o EncodeHash(entry.id) \o EncodeU64(Len(entry.transactions))
        \o EncodeTxs(entry.transactions)

\* serialized_size(&entry)
serialized_size(entry) == Len(Serialize(entry))

DecodeError == [ok |-> FALSE, txs |-> <<>>, next |-> 0]

\* count transactions read from position pos of data
RECURSIVE DecodeTxs(_, _, _)
DecodeTxs(data, pos, count) ==
    IF count = 0 THEN [ok |-> TRUE, txs |-> <<>>, next |-> pos]
    ELSE IF pos > Len(data) \/ data[pos][1] # "tx" THEN DecodeError
    ELSE LET tx == data[pos][2]
             end == pos + Transaction_serialized_size(tx) - 1
         IN  IF end > Len(data) THEN DecodeError
             ELSE IF \E i \in pos..end : data[i] # <<"tx", tx, i - pos + 1>>
             THEN DecodeError
             ELSE LET rest == DecodeTxs(data, end + 1, count - 1)
                  IN  IF rest.ok
                      THEN [ok |-> TRUE, txs |-> <<tx>> \o rest.txs,
                            next |-> rest.next]
                      ELSE DecodeError

NoEntry == [tick_height |-> 0, num_hashes |-> 0, id |-> Zero, transactions |-> <<>>]

\* deserialize::<Entry>(data): trailing bytes are ignored
Deserialize(data) ==
    IF Len(data) < EntryHeaderSize THEN [ok |-> FALSE, entry |-> NoEntry]
    ELSE LET th == SubSeq(data, 1, 8)
             nh == SubSeq(data, 9, 16)
             id == SubSeq(data, 17, 48)
             n  == SubSeq(data, 49, 56)
         IN  IF ~(IsU64(th) /\ IsU64(nh) /\ IsHash(id) /\ IsU64(n))
             THEN [ok |-> FALSE, entry |-> NoEntry]
             ELSE LET txs == DecodeTxs(data, 57, DecodeU64(n))
                  IN  IF ~txs.ok THEN [ok |-> FALSE, entry |-> NoEntry]
                      ELSE [ok |-> TRUE,
                            entry |-> [tick_height |-> DecodeU64(th),
                                       num_hashes |-> DecodeU64(nh),
                                       id |-> id[1][2],
                                       transactions |-> txs.txs]]

(***************************************************************************)
(* Blob (crate::packet): a fixed-capacity record; data is zero beyond what  *)
(* was written, size records the payload length.                            *)
(***************************************************************************)
Blob_default == [data |-> <<>>, size |-> 0]

\* the first n bytes of the blob's data
Blob_data(blob, n) ==
    [i \in 1..n |-> IF i <= Len(blob.data) THEN blob.data[i] ELSE <<"u8", 0>>]

\* Blob::size(): an error when the size field exceeds the capacity
Blob_size_ok(blob) == blob.size <= BLOB_DATA_SIZE

\* Entry::to_blob panics when the entry does not fit the blob's data
Entry_to_blob_panics(entry) == serialized_size(entry) > BLOB_DATA_SIZE

\* Entry::to_blob, with a defect: the size is set one byte short
Entry_to_blob_short(entry) ==
    [data |-> Serialize(entry), size |-> serialized_size(entry) - 1]

\* Entry::to_blob
Entry_to_blob(entry) ==
    [data |-> Serialize(entry), size |-> serialized_size(entry)]

\* EntrySlice::to_blobs
EntrySlice_to_blobs(es) ==
    [i \in 1..Len(es) |-> Entry_to_blob(es[i])]

ReconstructError == [ok |-> FALSE, entries |-> <<>>, num_ticks |-> 0]

\* the loop, with a defect: a blob that is malformed is skipped
RECURSIVE ReconstructFrom_skips_bad(_, _, _, _)
ReconstructFrom_skips_bad(bs, i, es, ticks) ==
    IF i > Len(bs)
    THEN [ok |-> TRUE, entries |-> es, num_ticks |-> ticks]
    ELSE IF ~Blob_size_ok(bs[i])
    THEN ReconstructFrom_skips_bad(bs, i + 1, es, ticks)
    ELSE LET r == Deserialize(Blob_data(bs[i], bs[i].size))
         IN  IF ~r.ok THEN ReconstructFrom_skips_bad(bs, i + 1, es, ticks)
             ELSE ReconstructFrom_skips_bad(bs, i + 1, Append(es, r.entry),
                      IF Entry_is_tick(r.entry) THEN ticks + 1
                      ELSE ticks)

\* the loop of reconstruct_entries_from_blobs from blob i on
RECURSIVE ReconstructFrom(_, _, _, _)
ReconstructFrom(bs, i, es, ticks) ==
    IF i > Len(bs)
    THEN [ok |-> TRUE, entries |-> es, num_ticks |-> ticks]
    ELSE IF ~Blob_size_ok(bs[i]) THEN ReconstructError
    ELSE LET r == Deserialize(Blob_data(bs[i], bs[i].size))
         IN  IF ~r.ok THEN ReconstructError
             ELSE ReconstructFrom(bs, i + 1, Append(es, r.entry),
                      IF Entry_is_tick(r.entry) THEN ticks + 1
                      ELSE ticks)

\* reconstruct_entries_from_blobs
reconstruct_entries_from_blobs(bs) == ReconstructFrom(bs, 1, <<>>, 0)


(***************************************************************************)
(* EntrySlice::verify: the pairs (x0, x1) of genesis.chain(self).zip(self)  *)
(* and the conjunction `all` computes over them.                            *)
(***************************************************************************)
\* the genesis entry verify() pairs the first entry with
Genesis(start) ==
    [tick_height |-> 0, num_hashes |-> 0, id |-> start,
     transactions |-> <<>>]

\* the pairing, with a defect: every entry is paired with the genesis entry
EntryPairGenesis(es, start, i) ==
    <<Genesis(start), es[i]>>

\* the i-th pair of genesis.par_iter().chain(self).zip(self)
EntryPair(es, start, i) ==
    <<IF i = 1 THEN Genesis(start) ELSE es[i - 1], es[i]>>

\* the closure, with a defect: a tick is taken on trust
PairVerifies_trusts_ticks(pair) ==
    Entry_is_tick(pair[2]) \/ Entry_verify(pair[2], pair[1].id)

\* the closure `all` is given: x1.verify(&x0.id)
PairVerifies(pair) == Entry_verify(pair[2], pair[1].id)

\* EntrySlice::verify
EntrySlice_verify(es, start) ==
    \A i \in 1..Len(es) : PairVerifies(EntryPair(es, start, i))

(***************************************************************************)
(* The producer: one call of Entry::new, Entry::new_mut or                  *)
(* next_entries_mut on the state (start_hash, num_hashes), followed by      *)
(* framing the entries into blobs, reconstructing and verifying them.       *)
(***************************************************************************)

\* the tick heights handed to Entry::new: one byte and two bytes wide
TickHeights == {0, 1, 257}

SeedHashes == {Zero, One}

InitProducer ==
    /\ pc = "idle"
    /\ api = "none"
    /\ start_hash \in SeedHashes
    /\ num_hashes \in 0..MaxHashes
    /\ call_hash = start_hash
    /\ call_num_hashes = num_hashes
    /\ call_tick = 0
    /\ transactions = <<>>
    /\ chunk_start = 0 /\ chunk_end = 0 /\ upper = 0 /\ lower = 0 /\ next = 0
    /\ entries = <<>>
    /\ blobs = <<>>
    /\ recon = ReconstructError
    /\ verdict = FALSE

\* Entry::new_mut, with a defect: start_hash is not advanced
Entry_new_mut_stale(sh, nh, txs) ==
    LET entry == Entry_new(sh, 0, nh, txs)
    IN  [panic |-> Entry_new_panics(txs)
                    \/ serialized_size(entry) > BLOB_DATA_SIZE,
         entry |-> entry, start_hash |-> sh, num_hashes |-> 0]

\* Entry::new_mut, with a defect: num_hashes is reset before it is used
Entry_new_mut_reset_first(sh, nh, txs) ==
    LET entry == Entry_new(sh, 0, 0, txs)
    IN  [panic |-> Entry_new_panics(txs)
                    \/ serialized_size(entry) > BLOB_DATA_SIZE,
         entry |-> entry, start_hash |-> entry.id, num_hashes |-> 0]

\* Entry::new_mut, with a defect: num_hashes is not reset
Entry_new_mut_keeps_count(sh, nh, txs) ==
    LET entry == Entry_new(sh, 0, nh, txs)
    IN  [panic |-> Entry_new_panics(txs)
                    \/ serialized_size(entry) > BLOB_DATA_SIZE,
         entry |-> entry, start_hash |-> entry.id, num_hashes |-> nh]

\* Entry::new_mut: the entry, and the state it leaves
Entry_new_mut(sh, nh, txs) ==
    LET entry == Entry_new(sh, 0, nh, txs)
    IN  [panic |-> Entry_new_panics(txs)
                    \/ serialized_size(entry) > BLOB_DATA_SIZE,
         entry |-> entry, start_hash |-> entry.id, num_hashes |-> 0]

\* transactions[chunk_start..chunk_end], with a defect: one short
ChunkShort(txs, cs, ce) == SubSeq(txs, cs + 1, ce - 1)

\* transactions[chunk_start..chunk_end]
Chunk(txs, cs, ce) == SubSeq(txs, cs + 1, ce)

\* vec![tx; n]: the lists of copies of one transaction
UniformLists == {[i \in 1..n |-> TxVote] : n \in 1..MaxCopies}

\* the lists next_entries_mut is called with
PackerLists == SeqUpTo(PackerTxs, MaxTxs) \cup UniformLists

\* the probe of the binary search, with a defect: the limit itself is refused
ChunkFits_strict(txs, cs, ce) ==
    Entry_serialized_size(Chunk(txs, cs, ce)) < BLOB_DATA_SIZE

\* the probe of the binary search, with a defect: one transaction at most
ChunkFits_single(txs, cs, ce) ==
    /\ ce - cs <= 1
    /\ Entry_serialized_size(Chunk(txs, cs, ce)) <= BLOB_DATA_SIZE

\* the probe of the binary search, with a defect: the header counted twice
ChunkFits_header_twice(txs, cs, ce) ==
    Entry_serialized_size(Chunk(txs, cs, ce)) + EntryHeaderSize
        <= BLOB_DATA_SIZE

\* the probe of the binary search
ChunkFits(txs, cs, ce) ==
    Entry_serialized_size(Chunk(txs, cs, ce)) <= BLOB_DATA_SIZE

LocalsUnchanged == UNCHANGED <<chunk_start, chunk_end, upper, lower, next>>
OthersUnchanged == UNCHANGED <<evars, vvars, cvars, svars, kvars, fvars, avars>>
FramingUnchanged == UNCHANGED <<blobs, recon, verdict>>

\* Entry::new(&start_hash, tick_height, num_hashes, transactions)
EntryNewCall ==
    /\ pc = "idle"
    /\ \E th \in TickHeights, txs \in SeqUpTo(PackerTxs, MaxTxs) :
        /\ api' = "new"
        /\ call_tick' = th
        /\ transactions' = txs
        /\ IF Entry_new_panics(txs)
           THEN pc' = "panic" /\ entries' = <<>>
           ELSE /\ pc' = "returned"
                /\ entries' = <<Entry_new(start_hash, th, num_hashes, txs)>>
    /\ UNCHANGED <<start_hash, num_hashes, call_hash, call_num_hashes>>
    /\ LocalsUnchanged /\ FramingUnchanged /\ OthersUnchanged

\* Entry::new_mut(&mut start_hash, &mut num_hashes, transactions)
EntryNewMutCall ==
    /\ pc = "idle"
    /\ \E txs \in SeqUpTo(PackerTxs, MaxTxs) :
        /\ api' = "new_mut"
        /\ transactions' = txs
        /\ LET r == Entry_new_mut(start_hash, num_hashes, txs)
           IN  IF r.panic
               THEN pc' = "panic" /\ entries' = <<>>
                    /\ UNCHANGED <<start_hash, num_hashes>>
               ELSE /\ pc' = "returned"
                    /\ entries' = <<r.entry>>
                    /\ start_hash' = r.start_hash
                    /\ num_hashes' = r.num_hashes
    /\ UNCHANGED <<call_hash, call_num_hashes, call_tick>>
    /\ LocalsUnchanged /\ FramingUnchanged /\ OthersUnchanged

\* next_entries_mut(&mut start_hash, &mut num_hashes, transactions): the
\* call, up to the first test of the while loop
NextEntriesMutCall ==
    /\ pc = "idle"
    /\ \E txs \in PackerLists :
        /\ api' = "next_entries_mut"
        /\ transactions' = txs
        /\ IF Len(txs) <= 1
           THEN LET r == Entry_new_mut(start_hash, num_hashes, txs)
                IN  IF r.panic
                    THEN pc' = "panic" /\ entries' = <<>>
                         /\ UNCHANGED <<start_hash, num_hashes>>
                    ELSE /\ pc' = "returned"
                         /\ entries' = <<r.entry>>
                         /\ start_hash' = r.start_hash
                         /\ num_hashes' = r.num_hashes
           ELSE /\ pc' = "while"
                /\ entries' = <<>>
                /\ UNCHANGED <<start_hash, num_hashes>>
    /\ chunk_start' = 0
    /\ UNCHANGED <<chunk_end, upper, lower, next>>
    /\ UNCHANGED <<call_hash, call_num_hashes, call_tick>>
    /\ FramingUnchanged /\ OthersUnchanged

\* while chunk_start < transactions.len(): set up the search, or return
WhileTest ==
    /\ pc = "while"
    /\ IF chunk_start < Len(transactions)
       THEN /\ pc' = "search"
            /\ chunk_end' = Len(transactions)
            /\ upper' = Len(transactions)
            /\ lower' = chunk_start
            /\ next' = Len(transactions)
       ELSE /\ pc' = "returned"
            /\ UNCHANGED <<chunk_end, upper, lower, next>>
    /\ UNCHANGED <<api, start_hash, num_hashes, call_hash, call_num_hashes,
                   call_tick, transactions, chunk_start, entries>>
    /\ FramingUnchanged /\ OthersUnchanged

\* one iteration of the binary search loop
SearchStep ==
    /\ pc = "search"
    /\ LET fits == ChunkFits(transactions, chunk_start, chunk_end)
           nxt  == IF fits THEN (upper + chunk_end) \div 2
                   ELSE (lower + chunk_end) \div 2
       IN  /\ next' = nxt
           /\ lower' = IF fits THEN chunk_end ELSE lower
           /\ upper' = IF fits THEN upper ELSE chunk_end
           /\ IF nxt = chunk_end
              THEN pc' = "push" /\ UNCHANGED chunk_end
              ELSE pc' = "search" /\ chunk_end' = nxt
    /\ UNCHANGED <<api, start_hash, num_hashes, call_hash, call_num_hashes,
                   call_tick, transactions, chunk_start, entries>>
    /\ FramingUnchanged /\ OthersUnchanged

\* entries.push(Entry::new_mut(.., chunk)); chunk_start = chunk_end
PushEntry ==
    /\ pc = "push"
    /\ Len(entries) < Len(transactions) + MaxSpin
    /\ LET r == Entry_new_mut(start_hash, num_hashes,
                              Chunk(transactions, chunk_start, chunk_end))
       IN  IF r.panic
           THEN pc' = "panic"
                /\ UNCHANGED <<start_hash, num_hashes, entries, chunk_start>>
           ELSE /\ pc' = "while"
                /\ entries' = Append(entries, r.entry)
                /\ start_hash' = r.start_hash
                /\ num_hashes' = r.num_hashes
                /\ chunk_start' = chunk_end
    /\ UNCHANGED <<api, call_hash, call_num_hashes, call_tick, transactions,
                   chunk_end, upper, lower, next>>
    /\ FramingUnchanged /\ OthersUnchanged

ProducerUnchanged ==
    UNCHANGED <<api, start_hash, num_hashes, call_hash, call_num_hashes,
                call_tick, transactions, chunk_start, chunk_end, upper,
                lower, next, entries>>

\* entries.to_blobs()
ToBlobs ==
    /\ pc = "returned"
    /\ IF \E i \in 1..Len(entries) : Entry_to_blob_panics(entries[i])
       THEN pc' = "panic" /\ UNCHANGED blobs
       ELSE pc' = "framed" /\ blobs' = EntrySlice_to_blobs(entries)
    /\ UNCHANGED <<recon, verdict>>
    /\ ProducerUnchanged /\ OthersUnchanged

\* the blob to_blobs(vec![(0, addr)]) makes: its payload is the serialized
\* 0, shorter than the header of an entry
AddrBlob == [data |-> [i \in 1..4 |-> <<"u8", 0>>], size |-> 4]

\* what may arrive in place of the blob of an entry: the blob with a size
\* field beyond the capacity, the blob cut short, a blob that holds no
\* entry, the well-framed blob of an entry with another id, and the blob
\* of an entry without hashes or transactions
WireBlobs(blob, entry) ==
    {[blob EXCEPT !.size = BLOB_DATA_SIZE + 1],
     [blob EXCEPT !.size = blob.size - 1],
     AddrBlob,
     Entry_to_blob([entry EXCEPT !.id = hash(entry.id)]),
     Entry_to_blob(Entry_new(entry.id, 0, 0, <<>>))}

\* the blobs are received with one of them replaced
ReceiveBlobs ==
    /\ pc = "framed"
    /\ \E i \in 1..Len(blobs) :
         \E b \in WireBlobs(blobs[i], entries[i]) :
            blobs' = [blobs EXCEPT ![i] = b]
    /\ pc' = "received"
    /\ UNCHANGED <<recon, verdict>>
    /\ ProducerUnchanged /\ OthersUnchanged

\* reconstruct_entries_from_blobs(blobs), on the blobs as framed or as
\* received
Reconstruct ==
    /\ pc \in {"framed", "received"}
    /\ pc' = IF pc = "framed" THEN "reconstructed" ELSE "decoded"
    /\ recon' = reconstruct_entries_from_blobs(blobs)
    /\ UNCHANGED <<blobs, verdict>>
    /\ ProducerUnchanged /\ OthersUnchanged

\* entries.verify(&call_hash) on the reconstructed entries
VerifyReconstructed ==
    /\ pc = "reconstructed"
    /\ recon.ok
    /\ pc' = "verified"
    /\ verdict' = EntrySlice_verify(recon.entries, call_hash)
    /\ UNCHANGED <<blobs, recon>>
    /\ ProducerUnchanged /\ OthersUnchanged

(***************************************************************************)
(* One entry under test: built by Entry::new or received from a peer with   *)
(* fields of the peer's choosing, possibly with two of its transactions     *)
(* swapped afterwards, then verified against a start hash.                  *)
(***************************************************************************)

InitEntry ==
    /\ e_pc = "idle"
    /\ e_origin = "none"
    /\ e_prev = Zero
    /\ e_tick = 0
    /\ e_num = 0
    /\ e_txs = <<>>
    /\ e_entry = NoEntry
    /\ e_swap = <<0, 0>>
    /\ e_start = Zero
    /\ e_ok = FALSE

\* let entry = Entry::new(&prev_id, tick_height, num_hashes, transactions)
EntryNew ==
    /\ e_pc = "idle"
    /\ \E prev_id \in SeedHashes, th \in TickHeights, n \in 0..MaxHashes,
          txs \in SeqUpTo(EntryTxs, MaxEntryTxs) :
        /\ e_origin' = "new"
        /\ e_prev' = prev_id /\ e_tick' = th /\ e_num' = n /\ e_txs' = txs
        /\ IF Entry_new_panics(txs)
           THEN e_pc' = "panic" /\ UNCHANGED e_entry
           ELSE e_pc' = "built" /\ e_entry' = Entry_new(prev_id, th, n, txs)
    /\ UNCHANGED <<e_swap, e_start, e_ok>>
    /\ UNCHANGED <<pvars, vvars, cvars, svars, kvars, fvars, avars>>

\* the ids a peer may claim for an entry on prev_id
PeerIds(prev_id, txs) ==
    SeedHashes \cup {next_hash(prev_id, k, txs) : k \in 0..MaxHashes}

\* an entry as a peer may send it: Entry { tick_height, num_hashes, id,
\* transactions } with every field set directly
EntryFromPeer ==
    /\ e_pc = "idle"
    /\ \E prev_id \in SeedHashes, n \in 0..MaxHashes,
          txs \in SeqUpTo(EntryTxs, MaxEntryTxs) :
         \E id \in PeerIds(prev_id, txs) :
            /\ e_origin' = "peer"
            /\ e_prev' = prev_id /\ e_tick' = 0 /\ e_num' = n /\ e_txs' = txs
            /\ e_pc' = "built"
            /\ e_entry' = [tick_height |-> 0, num_hashes |-> n, id |-> id,
                           transactions |-> txs]
    /\ UNCHANGED <<e_swap, e_start, e_ok>>
    /\ UNCHANGED <<pvars, vvars, cvars, svars, kvars, fvars, avars>>

\* e0.transactions[i] = tx_j; e0.transactions[j] = tx_i
SwapTransactions ==
    /\ e_pc = "built"
    /\ e_origin = "new"
    /\ \E i, j \in 1..Len(e_entry.transactions) :
        /\ i < j
        /\ e_swap' = <<i, j>>
        /\ e_entry' = [e_entry EXCEPT
                         !.transactions = [e_entry.transactions EXCEPT
                                             ![i] = e_entry.transactions[j],
                                             ![j] = e_entry.transactions[i]]]
    /\ e_pc' = "swapped"
    /\ UNCHANGED <<e_origin, e_prev, e_tick, e_num, e_txs, e_start, e_ok>>
    /\ UNCHANGED <<pvars, vvars, cvars, svars, kvars, fvars, avars>>

\* the transactions are removed from an entry Entry::new returned; id and
\* num_hashes stay
StripTransactions ==
    /\ e_pc = "built"
    /\ e_origin = "new"
    /\ e_entry.transactions # <<>>
    /\ e_origin' = "stripped"
    /\ e_entry' = [e_entry EXCEPT !.transactions = <<>>]
    /\ UNCHANGED <<e_pc, e_prev, e_tick, e_num, e_txs, e_swap, e_start, e_ok>>
    /\ UNCHANGED <<pvars, vvars, cvars, svars, kvars, fvars, avars>>

\* the entry with another tick_height
Retick(entry, h) == [entry EXCEPT !.tick_height = h]

\* the tick_height of an entry Entry::new returned is replaced; nothing else
\* changes
RetickEntry ==
    /\ e_pc = "built"
    /\ e_origin = "new"
    /\ \E h \in TickHeights \ {e_entry.tick_height} :
        e_entry' = Retick(e_entry, h)
    /\ e_origin' = "reticked"
    /\ UNCHANGED <<e_pc, e_prev, e_tick, e_num, e_txs, e_swap, e_start, e_ok>>
    /\ UNCHANGED <<pvars, vvars, cvars, svars, kvars, fvars, avars>>

\* the start hashes the entry under test is verified against
StartHashes == SeedHashes \cup {e_prev, hash(e_prev), e_entry.id}

\* entry.verify(&start)
EntryVerify ==
    /\ e_pc \in {"built", "swapped"}
    /\ \E start \in StartHashes :
        /\ e_start' = start
        /\ e_ok' = Entry_verify(e_entry, start)
    /\ e_pc' = "verified"
    /\ UNCHANGED <<e_origin, e_prev, e_tick, e_num, e_txs, e_entry, e_swap>>
    /\ UNCHANGED <<pvars, vvars, cvars, svars, kvars, fvars, avars>>



(***************************************************************************)
(* One slice under verification: EntrySlice::verify hands the pairs to a    *)
(* worker pool; the pairs are checked in any order and `all` may stop       *)
(* early once one pair has failed.                                          *)
(***************************************************************************)

InitVerify ==
    /\ v_pc = "build"
    /\ v_entries = <<>>
    /\ v_start = Zero
    /\ v_checked = {}
    /\ v_failed = FALSE
    /\ v_result = FALSE
    /\ v_tampered = 0

\* the id of the last entry of the slice being built
LastId == IF v_entries = <<>> THEN Zero ELSE v_entries[Len(v_entries)].id

\* the transaction lists of the entries of a slice
SliceTxs == {<<>>, <<TxSmall>>}

\* the slice grows by the next entry of the chain from Zero, or by that
\* entry with its id replaced
SliceAppend ==
    /\ v_pc = "build"
    /\ Len(v_entries) < MaxSlice
    /\ \E n \in 0..1, txs \in SliceTxs, tampered \in BOOLEAN :
         LET entry == Entry_new(LastId, 0, n, txs)
         IN  v_entries' = Append(v_entries,
                 IF tampered THEN [entry EXCEPT !.id = hash(entry.id)]
                 ELSE entry)
    /\ UNCHANGED <<v_pc, v_start, v_checked, v_failed, v_result, v_tampered>>
    /\ UNCHANGED <<pvars, evars, cvars, svars, kvars, fvars, avars>>

\* entries.verify(&start_hash) is called
SliceVerifyCall ==
    /\ v_pc = "build"
    /\ v_pc' = "checking"
    /\ v_start' \in SeedHashes
    /\ v_checked' = {}
    /\ v_failed' = FALSE
    /\ UNCHANGED <<v_entries, v_result, v_tampered>>
    /\ UNCHANGED <<pvars, evars, cvars, svars, kvars, fvars, avars>>

\* a worker checks pair i
CheckPair ==
    /\ v_pc = "checking"
    /\ \E i \in (1..Len(v_entries)) \ v_checked :
        /\ v_checked' = v_checked \cup {i}
        /\ v_failed' =
               (v_failed \/ ~PairVerifies(EntryPair(v_entries, v_start, i)))
    /\ UNCHANGED <<v_pc, v_entries, v_start, v_result, v_tampered>>
    /\ UNCHANGED <<pvars, evars, cvars, svars, kvars, fvars, avars>>

\* `all` returns: every pair was checked, or one failed
SliceVerifyReturn ==
    /\ v_pc = "checking"
    /\ v_failed \/ v_checked = 1..Len(v_entries)
    /\ v_pc' = "done"
    /\ v_result' = ~v_failed
    /\ UNCHANGED <<v_entries, v_start, v_checked, v_failed, v_tampered>>
    /\ UNCHANGED <<pvars, evars, cvars, svars, kvars, fvars, avars>>

\* the hashes an id is replaced by: one, or the hash of the id
TamperIds(id) == {One, hash(id)} \ {id}

\* bad_ticks[i].id = one; bad_ticks.verify(&zero): in a slice that verified,
\* the id of one entry is replaced and the slice is verified again
TamperId ==
    /\ v_pc = "done"
    /\ v_result
    /\ v_tampered = 0
    /\ \E i \in 1..Len(v_entries) :
         \E id \in TamperIds(v_entries[i].id) :
            /\ v_entries' = [v_entries EXCEPT ![i].id = id]
            /\ v_tampered' = i
    /\ v_pc' = "checking"
    /\ v_checked' = {}
    /\ v_failed' = FALSE
    /\ UNCHANGED <<v_start, v_result>>
    /\ UNCHANGED <<pvars, evars, cvars, svars, kvars, fvars, avars>>


(***************************************************************************)
(* The publication channel: EntrySender is the sending half of             *)
(* std::sync::mpsc::channel(), whose buffer has no capacity: send() queues  *)
(* the batch and returns at once, recv() takes the oldest batch.            *)
(***************************************************************************)

InitChannel ==
    /\ ch_queue = <<>>
    /\ ch_hash = Zero
    /\ ch_sent = 0
    /\ ch_got = <<>>

\* the batches a producer publishes: a tick, or an entry per transaction
ChannelBatches(h) ==
    {<<Entry_new(h, 0, 1, <<>>)>>,
     <<Entry_new(h, 0, 1, <<TxSmall>>)>>,
     <<Entry_new(h, 0, 1, <<TxLarge>>),
       Entry_new(Entry_new(h, 0, 1, <<TxLarge>>).id, 0, 1, <<TxLarge>>)>>}

\* sender.send(batch): Sender::send never blocks
ChannelSend ==
    /\ ch_sent < MaxBatches
    /\ \E batch \in ChannelBatches(ch_hash) :
        /\ ch_queue' = Append(ch_queue, batch)
        /\ ch_hash' = batch[Len(batch)].id
    /\ ch_sent' = ch_sent + 1
    /\ UNCHANGED ch_got
    /\ UNCHANGED <<pvars, evars, vvars, svars, kvars, fvars, avars>>

\* receiver.recv(): the oldest batch, when there is one
ChannelRecv ==
    /\ ch_queue # <<>>
    /\ ch_got' = Head(ch_queue)
    /\ ch_queue' = Tail(ch_queue)
    /\ UNCHANGED <<ch_hash, ch_sent>>
    /\ UNCHANGED <<pvars, evars, vvars, svars, kvars, fvars, avars>>

(***************************************************************************)
(* The system contract: SystemContract::process_transaction on              *)
(* accounts[0] and accounts[1] (here accounts[1] and accounts[2]). tokens   *)
(* is a signed integer of TokenBits bits; `-=` and `+=` panic on overflow   *)
(* in a build with overflow checks and wrap in a build without.             *)
(***************************************************************************)
SYSTEM_CONTRACT_ID == "system"

\* SystemContract::check_id
check_id(contract_id) == contract_id = SYSTEM_CONTRACT_ID

\* the public keys of the tests: from, to (also used as a contract id)
Pubkeys == {SYSTEM_CONTRACT_ID, "from", "to"}

TokenMin == -(2 ^ (TokenBits - 1))
TokenMax == 2 ^ (TokenBits - 1) - 1

\* v is a value of the tokens type
Representable(v) == v \in TokenMin..TokenMax

\* v in two's complement of TokenBits bits
Wrap(v) == ((v - TokenMin) % (2 ^ TokenBits)) + TokenMin

\* Account::default()
Account_default ==
    [tokens |-> 0, contract_id |-> SYSTEM_CONTRACT_ID, userdata |-> <<>>]

\* the instructions: contract_id "none" stands for None
CreateAccount(tokens, space, contract_id) ==
    [op |-> "CreateAccount", tokens |-> tokens, space |-> space,
     contract_id |-> contract_id]
Assign(contract_id) ==
    [op |-> "Assign", tokens |-> 0, space |-> 0, contract_id |-> contract_id]
Move(tokens) ==
    [op |-> "Move", tokens |-> tokens, space |-> 0, contract_id |-> "none"]
NoCall == [op |-> "none", tokens |-> 0, space |-> 0, contract_id |-> "none"]

\* the source check, with a defect: any owner passes
SourceOwned_any(accts) == TRUE

\* the source is owned by the system contract
SourceOwned(accts) == check_id(accts[1].contract_id)

\* the destination check, with a defect: the owner is not looked at
DestBlocked_userdata_only(call, accts) ==
    call.space > 0 /\ accts[2].userdata # <<>>

\* space is asked for and the destination is allocated or owned by another
\* contract
DestBlocked(call, accts) ==
    /\ call.space > 0
    /\ (accts[2].userdata # <<>> \/ ~check_id(accts[2].contract_id))

\* accounts[0].tokens -= tokens; accounts[1].tokens += tokens
Transfer(accts, tokens, build) ==
    LET debit  == accts[1].tokens - tokens
        credit == accts[2].tokens + tokens
        debited == [accts EXCEPT ![1].tokens = Wrap(debit)]
    IN  IF build = "debug" /\ ~Representable(debit)
        THEN [panic |-> TRUE, accounts |-> accts]
        ELSE IF build = "debug" /\ ~Representable(credit)
        THEN [panic |-> TRUE, accounts |-> debited]
        ELSE [panic |-> FALSE,
              accounts |-> [debited EXCEPT ![2].tokens = Wrap(credit)]]

\* the allocation, with a defect: the contract id is not recorded
Allocate_keeps_id(accts, call) ==
    [accts EXCEPT ![2].userdata = [i \in 1..call.space |-> 0]]

\* accounts[1].contract_id = id, if any; accounts[1].userdata = vec![0; space]
Allocate(accts, call) ==
    [accts EXCEPT
       ![2].contract_id = IF call.contract_id = "none" THEN @
                          ELSE call.contract_id,
       ![2].userdata = [i \in 1..call.space |-> 0]]

\* Assign, with a defect: the owner is not checked
AssignTo_unchecked(accts, contract_id) ==
    [accts EXCEPT ![1].contract_id = contract_id]

\* the Assign arm
AssignTo(accts, contract_id) ==
    IF ~check_id(accts[1].contract_id) THEN accts
    ELSE [accts EXCEPT ![1].contract_id = contract_id]

\* SystemContract::process_transaction
process_transaction(call, accts, build) ==
    IF call.op = "CreateAccount"
    THEN IF ~SourceOwned(accts) THEN [panic |-> FALSE, accounts |-> accts]
         ELSE IF DestBlocked(call, accts)
         THEN [panic |-> FALSE, accounts |-> accts]
         ELSE LET t == Transfer(accts, call.tokens, build)
              IN  IF t.panic THEN t
                  ELSE [panic |-> FALSE,
                        accounts |-> Allocate(t.accounts, call)]
    ELSE IF call.op = "Assign"
    THEN [panic |-> FALSE, accounts |-> AssignTo(accts, call.contract_id)]
    ELSE Transfer(accts, call.tokens, build)

\* the token amounts of the instructions
Amounts == {TokenMin, -1, 0, 1, TokenMax}

\* the space arguments
Spaces == {0, 1, 2}

\* the instructions the transactions carry
SysCalls ==
    {CreateAccount(t, sp, id) :
        t \in Amounts, sp \in Spaces, id \in {"none", "to"}}
    \cup {Assign(id) : id \in Pubkeys}
    \cup {Move(t) : t \in Amounts}

\* the accounts the tests start from
InitialAccounts ==
    {<<[Account_default EXCEPT !.tokens = t0, !.contract_id = c0],
       [Account_default EXCEPT !.contract_id = c1, !.userdata = u1]>> :
        t0 \in {0, 1}, c0 \in {SYSTEM_CONTRACT_ID, "from"},
        c1 \in {SYSTEM_CONTRACT_ID, "to"}, u1 \in {<<>>, <<0, 0, 0>>}}

InitSystem ==
    /\ s_pc = "ready"
    /\ s_build \in {"debug", "release"}
    /\ s_accounts \in InitialAccounts
    /\ s_before = s_accounts
    /\ s_first = s_accounts
    /\ s_call = NoCall
    /\ s_count = 0

\* SystemContract::process_transaction(&tx, &mut accounts)
ProcessTransaction ==
    /\ s_pc = "ready"
    /\ s_count < MaxSysTxs
    /\ \E call \in SysCalls :
         LET r == process_transaction(call, s_accounts, s_build)
         IN  /\ s_call' = call
             /\ s_accounts' = r.accounts
             /\ s_pc' = IF r.panic THEN "panicked" ELSE "ready"
    /\ s_before' = s_accounts
    /\ s_count' = s_count + 1
    /\ UNCHANGED <<s_build, s_first>>
    /\ UNCHANGED <<pvars, evars, vvars, cvars, kvars, fvars, avars>>

(***************************************************************************)
(* Calls in a row on one producer state: each call of next_entries_mut or   *)
(* Entry::new_mut taken as one step, the caller counting hashes in          *)
(* between.                                                                 *)
(***************************************************************************)

\* the binary search loop from one probe on: the chunk_end it converges on
RECURSIVE SearchFrom(_, _, _, _, _)
SearchFrom(txs, cs, ce, up, lo) ==
    LET fits == ChunkFits(txs, cs, ce)
        nxt  == IF fits THEN (up + ce) \div 2 ELSE (lo + ce) \div 2
    IN  IF nxt = ce THEN ce
        ELSE SearchFrom(txs, cs, nxt, IF fits THEN up ELSE ce,
                        IF fits THEN ce ELSE lo)

\* the while loop from chunk_start cs on; "hang" when a chunk is empty and
\* the loop cannot advance
RECURSIVE PackFrom(_, _, _, _, _)
PackFrom(txs, cs, sh, nh, es) ==
    IF cs >= Len(txs)
    THEN [outcome |-> "ok", entries |-> es, start_hash |-> sh,
          num_hashes |-> nh]
    ELSE LET ce == SearchFrom(txs, cs, Len(txs), Len(txs), cs)
             r  == Entry_new_mut(sh, nh, Chunk(txs, cs, ce))
         IN  IF r.panic
             THEN [outcome |-> "panic", entries |-> es, start_hash |-> sh,
                   num_hashes |-> nh]
             ELSE IF ce = cs
             THEN [outcome |-> "hang", entries |-> es, start_hash |-> sh,
                   num_hashes |-> nh]
             ELSE PackFrom(txs, ce, r.start_hash, r.num_hashes,
                           Append(es, r.entry))

\* next_entries_mut, with a defect: the state of the caller is not written
next_entries_mut_on_copy(sh, nh, txs) ==
    LET r == IF Len(txs) <= 1
             THEN [outcome |-> IF Entry_new_mut(sh, nh, txs).panic
                               THEN "panic" ELSE "ok",
                   entries |-> <<Entry_new_mut(sh, nh, txs).entry>>]
             ELSE PackFrom(txs, 0, sh, nh, <<>>)
    IN  [outcome |-> r.outcome, entries |-> r.entries, start_hash |-> sh,
         num_hashes |-> nh]

\* next_entries_mut as one step
next_entries_mut(sh, nh, txs) ==
    IF Len(txs) <= 1
    THEN LET r == Entry_new_mut(sh, nh, txs)
         IN  [outcome |-> IF r.panic THEN "panic" ELSE "ok",
              entries |-> <<r.entry>>, start_hash |-> r.start_hash,
              num_hashes |-> r.num_hashes]
    ELSE PackFrom(txs, 0, sh, nh, <<>>)

\* the transaction lists of the calls
CallLists == SeqUpTo({TxSmall, TxLarge}, MaxCallTxs)

InitCalls ==
    /\ k_pc = "idle"
    /\ k_first = One
    /\ k_hash = k_first
    /\ k_num = 0
    /\ k_ledger = <<>>
    /\ k_calls = 0

\* the caller counts one more hash
CountHash ==
    /\ k_pc \in {"idle", "returned"}
    /\ k_num < MaxHashes
    /\ k_num' = k_num + 1
    /\ k_pc' = "idle"
    /\ UNCHANGED <<k_first, k_hash, k_ledger, k_calls>>
    /\ UNCHANGED <<pvars, evars, vvars, cvars, svars, fvars, avars>>

\* next_entries_mut(&mut start_hash, &mut num_hashes, transactions)
CallNextEntriesMut ==
    /\ k_pc \in {"idle", "returned"}
    /\ k_calls < MaxCalls
    /\ \E txs \in CallLists :
         LET r == next_entries_mut(k_hash, k_num, txs)
         IN  IF r.outcome = "ok"
             THEN /\ k_pc' = "returned"
                  /\ k_ledger' = k_ledger \o r.entries
                  /\ k_hash' = r.start_hash
                  /\ k_num' = r.num_hashes
             ELSE /\ k_pc' = "panic"
                  /\ UNCHANGED <<k_ledger, k_hash, k_num>>
    /\ k_calls' = k_calls + 1
    /\ UNCHANGED k_first
    /\ UNCHANGED <<pvars, evars, vvars, cvars, svars, fvars, avars>>

\* Entry::new_mut(&mut start_hash, &mut num_hashes, transactions)
CallNewMut ==
    /\ k_pc \in {"idle", "returned"}
    /\ k_calls < MaxCalls
    /\ \E txs \in CallLists :
         LET r == Entry_new_mut(k_hash, k_num, txs)
         IN  IF r.panic
             THEN /\ k_pc' = "panic"
                  /\ UNCHANGED <<k_ledger, k_hash, k_num>>
             ELSE /\ k_pc' = "returned"
                  /\ k_ledger' = Append(k_ledger, r.entry)
                  /\ k_hash' = r.start_hash
                  /\ k_num' = r.num_hashes
    /\ k_calls' = k_calls + 1
    /\ UNCHANGED k_first
    /\ UNCHANGED <<pvars, evars, vvars, cvars, svars, fvars, avars>>

(***************************************************************************)
(* Entry::num_will_fit: the binary search for the longest prefix of the     *)
(* transactions that fits one blob, one iteration of its loop per step.     *)
(***************************************************************************)

\* the lists num_will_fit is called with
FitLists == SeqUpTo(PackerTxs \cup {TxVote}, MaxTxs)

\* Self::serialized_size(&transactions[..num]) <= BLOB_DATA_SIZE
PrefixFits(txs, n) ==
    Entry_serialized_size(SubSeq(txs, 1, n)) <= BLOB_DATA_SIZE

InitFit ==
    /\ f_pc = "idle"
    /\ f_txs = <<>>
    /\ f_num = 0
    /\ f_upper = 0
    /\ f_lower = 0
    /\ f_next = 0

\* Entry::num_will_fit(transactions) up to the loop
NumWillFitCall ==
    /\ f_pc = "idle"
    /\ \E txs \in FitLists :
         /\ f_txs' = txs
         /\ IF txs = <<>>
            THEN /\ f_pc' = "returned"
                 /\ UNCHANGED <<f_num, f_upper, f_lower, f_next>>
            ELSE /\ f_pc' = "loop"
                 /\ f_num' = Len(txs)
                 /\ f_upper' = Len(txs)
                 /\ f_lower' = 1
                 /\ f_next' = Len(txs)
    /\ UNCHANGED <<pvars, evars, vvars, cvars, svars, kvars, avars>>

\* one iteration of the loop, and the return when it breaks
NumWillFitLoop ==
    /\ f_pc = "loop"
    /\ LET fits == PrefixFits(f_txs, f_num)
           nxt  == IF fits THEN (f_upper + f_num) \div 2
                   ELSE (f_lower + f_num) \div 2
       IN  /\ f_next' = nxt
           /\ f_lower' = IF fits THEN f_num ELSE f_lower
           /\ f_upper' = IF fits THEN f_upper ELSE f_num
           /\ IF nxt = f_num
              THEN f_pc' = "returned" /\ UNCHANGED f_num
              ELSE f_pc' = "loop" /\ f_num' = nxt
    /\ UNCHANGED f_txs
    /\ UNCHANGED <<pvars, evars, vvars, cvars, svars, kvars, avars>>

(***************************************************************************)
(* create_and_fund_vote_account (fullnode main.rs). The client is the       *)
(* environment: each of its calls returns, with any of the results the      *)
(* function matches on.                                                     *)
(***************************************************************************)
NodeKey == "node"
OtherKey == "other"
VoteAccount == "vote_account"

\* sleep(Duration::from_secs(2))
PauseSecs == 2

\* what poll_get_balance may answer: Ok(balance) or Err
BalanceReplies ==
    {[ok |-> TRUE, balance |-> b] : b \in 0..MaxBalance}
    \cup {[ok |-> FALSE, balance |-> 0]}

\* what get_last_id may answer
LastIds == 1..MaxLastIds

\* VoteTransaction::vote_account_new(node_keypair, vote_account, last_id, 1, 1)
vote_account_new(keypair, vote_account, last_id) ==
    [from |-> keypair, vote_account |-> vote_account, last_id |-> last_id,
     num_tokens |-> 1, fee |-> 1]

NoTx == [from |-> "none", vote_account |-> "none", last_id |-> 0,
         num_tokens |-> 0, fee |-> 0]

\* how a call of the client goes: Ok or Err
Outcomes == {"ok", "err"}

\* how transfer_signed, poll_for_signature and poll_get_balance went in the
\* iteration: "none" for a call not made
NoAttempt == [send |-> "none", sig |-> "none", bal |-> "none"]

\* the iteration reaches `break`, with a defect: the balance poll is not
\* looked at
Breaks_unpolled(attempt) == attempt.send = "ok" /\ attempt.sig = "ok"

\* the iteration reaches `break`
Breaks(attempt) ==
    attempt.send = "ok" /\ attempt.sig = "ok" /\ attempt.bal = "ok"

\* the userdata of a vote account: a serialized vote state, or bytes that
\* are none
VoteUserdata(node_id) == <<"vote_state", node_id>>
JunkUserdata == <<"junk">>

\* VoteProgram::deserialize
VoteProgram_deserialize(data) ==
    IF Len(data) = 2 /\ data[1] = "vote_state"
    THEN [ok |-> TRUE, node_id |-> data[2]]
    ELSE [ok |-> FALSE, node_id |-> "none"]

\* what get_account_userdata may answer: Err, Ok(None) or Ok(Some(data))
NotAsked == [asked |-> FALSE, ok |-> FALSE, some |-> FALSE, data |-> <<>>]
UserdataReplies ==
    {[asked |-> TRUE, ok |-> FALSE, some |-> FALSE, data |-> <<>>],
     [asked |-> TRUE, ok |-> TRUE, some |-> FALSE, data |-> <<>>]}
    \cup {[asked |-> TRUE, ok |-> TRUE, some |-> TRUE, data |-> d] :
             d \in {JunkUserdata, VoteUserdata(NodeKey),
                    VoteUserdata(OtherKey)}}

\* the registration check, with a defect: node_id is not compared
Registered_any_node(reply, pubkey) ==
    /\ reply.ok /\ reply.some
    /\ VoteProgram_deserialize(reply.data).ok

\* the registration check: Ok(Some(userdata)) that deserializes to a vote
\* state of this node
Registered(reply, pubkey) ==
    /\ reply.ok /\ reply.some
    /\ VoteProgram_deserialize(reply.data).ok
    /\ VoteProgram_deserialize(reply.data).node_id = pubkey

InitVote ==
    /\ a_pc = "start"
    /\ a_ret = "none"
    /\ a_node_balance = 0
    /\ a_entered = FALSE
    /\ a_last_id = 0
    /\ a_tx = NoTx
    /\ a_attempt = NoAttempt
    /\ a_attempts = 0
    /\ a_pause = 0
    /\ a_userdata = NotAsked

LoopUnchanged ==
    UNCHANGED <<a_entered, a_last_id, a_tx, a_attempt, a_attempts, a_pause>>

\* client.poll_get_balance(&pubkey)?, and the test for one token
PollNodeBalance ==
    /\ a_pc = "start"
    /\ \E reply \in BalanceReplies :
         IF ~reply.ok \/ reply.balance < 1
         THEN /\ a_pc' = "done" /\ a_ret' = "err"
              /\ UNCHANGED a_node_balance
         ELSE /\ a_pc' = "vote_balance" /\ a_node_balance' = reply.balance
              /\ UNCHANGED a_ret
    /\ UNCHANGED a_userdata
    /\ LoopUnchanged
    /\ UNCHANGED <<pvars, evars, vvars, cvars, svars, kvars, fvars>>

\* client.poll_get_balance(&vote_account).unwrap_or(0) == 0, and the test
\* for two tokens
PollVoteBalance ==
    /\ a_pc = "vote_balance"
    /\ \E reply \in BalanceReplies :
         LET balance == IF reply.ok THEN reply.balance ELSE 0
         IN  IF balance # 0
             THEN a_pc' = "check" /\ UNCHANGED <<a_ret, a_entered>>
             ELSE IF a_node_balance < 2
             THEN a_pc' = "done" /\ a_ret' = "err" /\ UNCHANGED a_entered
             ELSE a_pc' = "loop" /\ a_entered' = TRUE /\ UNCHANGED a_ret
    /\ UNCHANGED <<a_node_balance, a_last_id, a_tx, a_attempt, a_attempts,
                   a_pause, a_userdata>>
    /\ UNCHANGED <<pvars, evars, vvars, cvars, svars, kvars, fvars>>

\* let last_id = client.get_last_id(), and the transaction made with it
GetLastId ==
    /\ a_pc = "loop"
    /\ \E last_id \in LastIds :
         /\ a_last_id' = last_id
         /\ a_tx' = vote_account_new(NodeKey, VoteAccount, last_id)
    /\ a_attempt' = NoAttempt
    /\ a_pc' = "send"
    /\ UNCHANGED <<a_ret, a_node_balance, a_entered, a_attempts, a_pause,
                   a_userdata>>
    /\ UNCHANGED <<pvars, evars, vvars, cvars, svars, kvars, fvars>>

\* client.transfer_signed(&transaction)
TransferSigned ==
    /\ a_pc = "send"
    /\ \E o \in Outcomes :
         /\ a_attempt' = [a_attempt EXCEPT !.send = o]
         /\ a_pc' = IF o = "ok" THEN "poll_signature" ELSE "sleep"
    /\ a_attempts' = IF a_attempts < MaxAttempts THEN a_attempts + 1
                     ELSE a_attempts
    /\ a_pause' = 0
    /\ UNCHANGED <<a_ret, a_node_balance, a_entered, a_last_id, a_tx,
                   a_userdata>>
    /\ UNCHANGED <<pvars, evars, vvars, cvars, svars, kvars, fvars>>

\* client.poll_for_signature(&signature)
PollForSignature ==
    /\ a_pc = "poll_signature"
    /\ \E o \in Outcomes :
         /\ a_attempt' = [a_attempt EXCEPT !.sig = o]
         /\ a_pc' = IF o = "ok" THEN "poll_balance" ELSE "sleep"
    /\ UNCHANGED <<a_ret, a_node_balance, a_entered, a_last_id, a_tx,
                   a_attempts, a_pause, a_userdata>>
    /\ UNCHANGED <<pvars, evars, vvars, cvars, svars, kvars, fvars>>

\* client.poll_get_balance(&vote_account), and the `break`
PollCreatedBalance ==
    /\ a_pc = "poll_balance"
    /\ \E o \in Outcomes :
         LET attempt == [a_attempt EXCEPT !.bal = o]
         IN  /\ a_attempt' = attempt
             /\ a_pc' = IF Breaks(attempt) THEN "check" ELSE "sleep"
    /\ UNCHANGED <<a_ret, a_node_balance, a_entered, a_last_id, a_tx,
                   a_attempts, a_pause, a_userdata>>
    /\ UNCHANGED <<pvars, evars, vvars, cvars, svars, kvars, fvars>>

\* sleep(Duration::from_secs(2)), and back to the top of the loop
SleepTwoSeconds ==
    /\ a_pc = "sleep"
    /\ a_pc' = "loop"
    /\ a_pause' = a_pause + PauseSecs
    /\ UNCHANGED <<a_ret, a_node_balance, a_entered, a_last_id, a_tx,
                   a_attempt, a_attempts, a_userdata>>
    /\ UNCHANGED <<pvars, evars, vvars, cvars, svars, kvars, fvars>>

\* client.get_account_userdata(&vote_account), the registration check and
\* the return
CheckRegistration ==
    /\ a_pc = "check"
    /\ \E reply \in UserdataReplies :
         /\ a_userdata' = reply
         /\ a_ret' = IF Registered(reply, NodeKey) THEN "ok" ELSE "err"
    /\ a_pc' = "done"
    /\ UNCHANGED a_node_balance
    /\ LoopUnchanged
    /\ UNCHANGED <<pvars, evars, vvars, cvars, svars, kvars, fvars>>

(***************************************************************************)
(* Properties of the producer (Spec).                                       *)
(***************************************************************************)
\* next_entries_mut has returned
PackerReturned ==
    /\ api = "next_entries_mut"
    /\ pc \in {"returned", "framed", "reconstructed", "verified"}

\* the transactions of a sequence of entries, one after the other
RECURSIVE Flatten(_)
Flatten(es) ==
    IF es = <<>> THEN <<>> ELSE Head(es).transactions \o Flatten(Tail(es))

\* C1: chain continuity. Whatever the seed, the accumulated num_hashes and
\* the transaction list, the entries next_entries_mut returns verify as a
\* slice against the seed, and so do they once framed and reconstructed.
ChainContinuity ==
    /\ PackerReturned => EntrySlice_verify(entries, call_hash)
    /\ (api = "next_entries_mut" /\ pc = "verified") => verdict

ChainContinuityWitness ==
    /\ PackerReturned
    /\ Len(entries) >= 3
    /\ call_num_hashes >= 2
    /\ call_hash = One
    /\ EntrySlice_verify(entries, call_hash)

\* C3: packer coverage. The transactions of the returned entries, in
\* emission order, are the input list: same order, nothing twice, nothing
\* left out.
PackerCoverage == PackerReturned => Flatten(entries) = transactions

PackerCoverageWitness ==
    /\ PackerReturned
    /\ Len(transactions) >= 4
    /\ Len(entries) \in 2..(Len(transactions) - 1)
    /\ Flatten(entries) = transactions

\* C4: size bound. Every entry emitted by Entry::new, Entry::new_mut or the
\* packer serializes to 56 bytes plus the serialized sizes of its
\* transactions, and to at most BLOB_DATA_SIZE bytes.
SizeBound ==
    \A i \in 1..Len(entries) :
        /\ serialized_size(entries[i]) = 56 + SumSizes(entries[i].transactions)
        /\ serialized_size(entries[i]) <= BLOB_DATA_SIZE

SizeBoundWitness ==
    /\ PackerReturned
    /\ Len(entries) >= 2
    /\ serialized_size(entries[1]) = BLOB_DATA_SIZE
    /\ serialized_size(entries[2]) < BLOB_DATA_SIZE

\* C6: round trip. Framing the emitted entries into blobs and reconstructing
\* them succeeds and gives back the same entries in the same order, also
\* when an entry fills its blob.
RoundTrip ==
    pc \in {"reconstructed", "verified"} =>
        recon.ok /\ recon.entries = entries

RoundTripWitness ==
    /\ pc = "reconstructed"
    /\ Len(entries) >= 2
    /\ \E i \in 1..Len(entries) : serialized_size(entries[i]) = BLOB_DATA_SIZE
    /\ \E i \in 1..Len(entries) :
           serialized_size(entries[i]) = BLOB_DATA_SIZE - 1
    /\ recon.ok /\ recon.entries = entries

\* some transaction of the list is too large for an entry on its own
SomeOversize ==
    \E i \in 1..Len(transactions) : Entry_new_panics(<<transactions[i]>>)

\* C11, as claimed: given a list in which some transaction alone exceeds
\* BLOB_DATA_SIZE, next_entries_mut aborts: it does not return, and it does
\* not go on by emitting an entry that consumes no transaction.
OversizeAborts ==
    (api = "next_entries_mut" /\ SomeOversize) =>
        /\ ~PackerReturned
        /\ \A i \in 1..Len(entries) : entries[i].transactions # <<>>

\* every transaction of the list fits in an entry on its own
AllFitAlone ==
    \A i \in 1..Len(transactions) : ~Entry_new_panics(<<transactions[i]>>)

\* no two neighbours of the list fit in one entry
OneFitsPerEntry ==
    \A i \in 1..(Len(transactions) - 1) :
        SumSizes(SubSeq(transactions, i, i + 1)) + 56 > BLOB_DATA_SIZE

\* next_entries_mut is inside its while loop
PackerRunning ==
    /\ api = "next_entries_mut"
    /\ pc \in {"while", "search", "push"}

\* the binary search has converged on a chunk that is not empty
SearchConverges ==
    (PackerRunning /\ pc = "push" /\ AllFitAlone) => chunk_end > chunk_start

\* one entry per transaction when only one fits per entry
OneEntryPerTransaction ==
    (PackerReturned /\ AllFitAlone /\ OneFitsPerEntry
        /\ Len(transactions) >= 1) =>
            Len(entries) = Len(transactions)

\* C12: packer termination. When every transaction fits in an entry on its
\* own, each binary search converges on a chunk_end greater than
\* chunk_start, the call returns, and when only one transaction fits per
\* entry it returns one entry per transaction.
PackerTermination ==
    /\ []SearchConverges
    /\ []OneEntryPerTransaction
    /\ (PackerRunning /\ AllFitAlone) ~> PackerReturned

PackerTerminationWitness ==
    /\ PackerReturned
    /\ AllFitAlone /\ OneFitsPerEntry
    /\ Len(transactions) = 4
    /\ Len(entries) = 4

\* the blob is malformed: its size field exceeds the capacity, or its
\* payload does not deserialize as an entry
Malformed(blob) ==
    \/ blob.size > BLOB_DATA_SIZE
    \/ ~Deserialize(Blob_data(blob, blob.size)).ok

\* C16: framing fault. reconstruct_entries_from_blobs returns an error when
\* a blob is malformed (size field beyond the capacity, payload cut short
\* or not an entry), wherever the blob sits, and then returns no entries and
\* no tick count; it returns Ok, with one entry per blob, when every blob is
\* well framed, whether or not the entries form a chain.
FramingFault ==
    pc = "decoded" =>
        /\ recon.ok <=> \A i \in 1..Len(blobs) : ~Malformed(blobs[i])
        /\ (\E i \in 1..Len(blobs) :
                \/ blobs[i].size > BLOB_DATA_SIZE
                \/ /\ blobs[i].data = Serialize(entries[i])
                   /\ blobs[i].size < serialized_size(entries[i]))
                        => ~recon.ok
        /\ ~recon.ok => recon.entries = <<>> /\ recon.num_ticks = 0
        /\ recon.ok => Len(recon.entries) = Len(blobs)

FramingFaultWitness ==
    /\ pc = "decoded"
    /\ Len(blobs) = 3
    /\ blobs[3].size = serialized_size(entries[3]) - 1
    /\ ~Malformed(blobs[1]) /\ ~Malformed(blobs[2])
    /\ ~recon.ok /\ recon.entries = <<>>

\* the list is n >= 1 copies of one transaction
Uniform ==
    /\ Len(transactions) >= 1
    /\ \A i \in 1..Len(transactions) : transactions[i] = transactions[1]

\* T = (BLOB_DATA_SIZE - 56) / s for a list of copies
Threshold ==
    (BLOB_DATA_SIZE - 56) \div Transaction_serialized_size(transactions[1])

\* C17: threshold split. n >= 1 copies of one transaction of size s, with
\* T = (BLOB_DATA_SIZE - 56) / s >= 1, are packed into ceil(n / T) entries,
\* each but the last holding T transactions; T copies give one entry and
\* 2 * T copies give two.
ThresholdSplit ==
    (PackerReturned /\ Uniform /\ Threshold >= 1) =>
        /\ Len(entries) = (Len(transactions) + Threshold - 1) \div Threshold
        /\ \A i \in 1..(Len(entries) - 1) :
               Len(entries[i].transactions) = Threshold
        /\ Len(transactions) = Threshold => Len(entries) = 1
        /\ Len(transactions) = 2 * Threshold => Len(entries) = 2

ThresholdSplitWitness ==
    /\ PackerReturned /\ Uniform
    /\ Threshold = 2
    /\ Len(transactions) = 2 * Threshold
    /\ Len(entries) = 2
    /\ serialized_size(entries[1]) = BLOB_DATA_SIZE

\* C18: packer edge cases. Given no transactions next_entries_mut returns
\* one entry with no transactions whose num_hashes is the accumulated
\* num_hashes; given one transaction it returns one entry holding it; in
\* both cases the while loop and its binary search are not entered.
PackerEdgeCases ==
    (api = "next_entries_mut" /\ Len(transactions) <= 1) =>
        /\ ~PackerRunning
        /\ PackerReturned =>
               /\ Len(entries) = 1
               /\ entries[1].transactions = transactions
               /\ transactions = <<>> =>
                      entries[1].num_hashes = call_num_hashes

PackerEdgeCasesWitness ==
    /\ PackerReturned
    /\ transactions = <<>>
    /\ call_num_hashes = 2
    /\ Len(entries) = 1 /\ entries[1].num_hashes = 2

\* how many transactions the first i entries hold
RECURSIVE HeldBy(_, _)
HeldBy(es, i) ==
    IF i = 0 THEN 0 ELSE Len(es[i].transactions) + HeldBy(es, i - 1)

\* the smaller of two numbers
Min(a, b) == IF a <= b THEN a ELSE b

\* the least number of entries, over all first chunks of at most k
\* transactions that fit, that hold txs in order; more than Len(txs) when
\* there is no such split
RECURSIVE FewestFrom(_, _)
FewestFrom(txs, k) ==
    IF txs = <<>> THEN 0
    ELSE IF k = 0 THEN Len(txs) + 1
    ELSE LET shorter == FewestFrom(txs, k - 1)
         IN  IF 56 + SumSizes(SubSeq(txs, 1, k)) > BLOB_DATA_SIZE
             THEN shorter
             ELSE LET rest == SubSeq(txs, k + 1, Len(txs))
                  IN  Min(shorter, 1 + FewestFrom(rest, Len(rest)))

\* C27: greedy maximal chunks. Of the entries next_entries_mut returns for
\* two or more transactions, every one but the last is full: with the next
\* transaction of the list it would exceed BLOB_DATA_SIZE; and no split of
\* the list into entries that hold it in order and fit uses fewer entries.
GreedyMaximal ==
    (PackerReturned /\ Len(transactions) >= 2) =>
        /\ \A i \in 1..(Len(entries) - 1) :
               56 + SumSizes(entries[i].transactions)
                  + Transaction_serialized_size(
                        transactions[HeldBy(entries, i) + 1])
                  > BLOB_DATA_SIZE
        /\ Len(entries) = FewestFrom(transactions, Len(transactions))

GreedyMaximalWitness ==
    /\ PackerReturned
    /\ Len(transactions) = 4
    /\ Len(entries) = 3
    /\ Len(entries[1].transactions) = 1
    /\ Len(entries[3].transactions) = 2

\* the blobs were reconstructed without an error
Reconstructed ==
    /\ pc \in {"reconstructed", "verified", "decoded"}
    /\ recon.ok

\* C29: tick count. reconstruct_entries_from_blobs returns the entry of
\* each blob, in the order of the blobs, and the number of those entries
\* that hold no transactions; an entry without hashes or transactions
\* counts as a tick.
TickCount ==
    Reconstructed =>
        /\ Len(recon.entries) = Len(blobs)
        /\ \A i \in 1..Len(blobs) :
               recon.entries[i] =
                   Deserialize(Blob_data(blobs[i], blobs[i].size)).entry
        /\ recon.num_ticks =
               Cardinality({i \in 1..Len(recon.entries) :
                               recon.entries[i].transactions = <<>>})

TickCountWitness ==
    /\ Reconstructed
    /\ Len(recon.entries) = 3
    /\ recon.entries[2].num_hashes = 0
    /\ recon.entries[2].transactions = <<>>
    /\ recon.entries[1].transactions # <<>>
    /\ recon.num_ticks = 1

\* the larger of two numbers
Max(a, b) == IF a >= b THEN a ELSE b

\* C30: accumulator consumption. When next_entries_mut, called with the
\* accumulated num_hashes a, returns two entries or more, the first has
\* num_hashes max(a, 1) and every later one has num_hashes 1; every entry
\* has tick_height 0.
AccumulatorConsumed ==
    (PackerReturned /\ Len(entries) >= 2) =>
        /\ entries[1].num_hashes = Max(call_num_hashes, 1)
        /\ \A i \in 2..Len(entries) : entries[i].num_hashes = 1
        /\ \A i \in 1..Len(entries) : entries[i].tick_height = 0

AccumulatorConsumedWitness ==
    /\ PackerReturned
    /\ call_num_hashes = 2
    /\ Len(entries) = 3
    /\ entries[1].num_hashes = 2
    /\ entries[3].num_hashes = 1

(***************************************************************************)
(* Properties of one entry (SpecEntry).                                     *)
(***************************************************************************)
\* the entry under test is what Entry::new returned, untouched
FreshEntry ==
    /\ e_origin = "new"
    /\ e_pc \in {"built", "verified"}
    /\ e_swap = <<0, 0>>

\* k plain hashes of h
RECURSIVE HashTimes(_, _)
HashTimes(h, k) == IF k = 0 THEN h ELSE hash(HashTimes(h, k - 1))

\* the digest the last hash of an entry mixes in
Mixin(txs) == IF txs = <<>> THEN TickMarker ELSE Transaction_hash(txs)

\* the entry was swapped and verified against the prev_id it was built on
SwappedAndVerified ==
    /\ e_origin = "new"
    /\ e_pc = "verified"
    /\ e_swap # <<0, 0>>
    /\ e_start = e_prev

\* C2, as claimed: swapping any two transactions of an entry built by
\* Entry::new makes it fail verify against prev_id.
AnySwapDetected == SwappedAndVerified => ~e_ok

\* C2, amended: swapping two transactions that differ makes the entry fail
\* verify against prev_id (swapping two equal transactions leaves the entry
\* as it was, and it still verifies); system and budget transactions alike.
ReorderDetected ==
    SwappedAndVerified =>
        (e_ok <=> e_txs[e_swap[1]] = e_txs[e_swap[2]])

ReorderDetectedWitness ==
    /\ SwappedAndVerified
    /\ e_swap = <<2, 3>>
    /\ e_txs[2] # e_txs[3]
    /\ e_txs[2].kind = "budget" /\ e_txs[3].kind = "system"
    /\ ~e_ok

\* C7: self-verification. With num_hashes >= 1 the id Entry::new computes is
\* num_hashes - 1 plain hashes of prev_id followed by one mix (of the tick
\* marker, or of the transactions' digest); the entry verifies against
\* prev_id and against no other start hash.
SelfVerification ==
    (FreshEntry /\ e_num >= 1) =>
        /\ e_entry.num_hashes = e_num
        /\ e_entry.id = hashv(HashTimes(e_prev, e_num - 1), Mixin(e_txs))
        /\ e_pc = "verified" => (e_ok <=> e_start = e_prev)

SelfVerificationWitness ==
    /\ FreshEntry /\ e_pc = "verified"
    /\ e_num >= 2
    /\ Len(e_txs) >= 2
    /\ e_start = e_prev /\ e_ok

\* C8: the no-op entry. Entry::new(prev_id, h, 0, []) has id = prev_id and
\* num_hashes = 0; it verifies against prev_id and against no other hash.
NoOpEntry ==
    (FreshEntry /\ e_num = 0 /\ e_txs = <<>>) =>
        /\ e_entry.id = e_prev
        /\ e_entry.num_hashes = 0
        /\ e_pc = "verified" => (e_ok <=> e_start = e_prev)

NoOpEntryWitness ==
    /\ FreshEntry /\ e_pc = "verified"
    /\ e_num = 0 /\ e_txs = <<>>
    /\ e_start # e_prev /\ ~e_ok

\* C9: promotion. Entry::new with num_hashes = 0 and transactions returns an
\* entry with num_hashes = 1 whose id is the one mix of the transactions'
\* digest onto prev_id: the entry num_hashes = 1 would give.
Promotion ==
    (FreshEntry /\ e_num = 0 /\ e_txs # <<>>) =>
        /\ e_entry.num_hashes = 1
        /\ e_entry.id = hashv(e_prev, Transaction_hash(e_txs))
        /\ e_entry = Entry_new(e_prev, e_tick, 1, e_txs)

PromotionWitness ==
    /\ FreshEntry /\ e_pc = "built"
    /\ e_num = 0 /\ Len(e_txs) = 2
    /\ e_tick = 257
    /\ e_entry.num_hashes = 1

\* C13: oversize fault. Entry::new panics exactly when 56 plus the sum of
\* the transactions' serialized sizes is greater than BLOB_DATA_SIZE; an
\* entry of exactly BLOB_DATA_SIZE bytes is returned.
OversizeFault ==
    (e_origin = "new" /\ e_pc \in {"built", "panic"}) =>
        (e_pc = "panic" <=> 56 + SumSizes(e_txs) > BLOB_DATA_SIZE)

OversizeFaultWitness ==
    /\ e_origin = "new" /\ e_pc = "built"
    /\ 56 + SumSizes(e_txs) = BLOB_DATA_SIZE
    /\ e_entry.transactions = e_txs

\* C14: tick/transaction domain separation. With num_hashes >= 1 the id of
\* a transaction entry differs from the id of the tick entry on the same
\* prev_id with the same num_hashes; an entry Entry::new returned with
\* transactions fails verify against prev_id once its transactions are
\* removed.
DomainSeparation ==
    /\ (FreshEntry /\ e_txs # <<>>) =>
           /\ e_entry.num_hashes >= 1
           /\ e_entry.id # Entry_new(e_prev, e_tick, e_entry.num_hashes,
                                     <<>>).id
    /\ (e_origin = "stripped" /\ e_pc = "verified" /\ e_start = e_prev) =>
           ~e_ok

DomainSeparationWitness ==
    /\ e_origin = "stripped" /\ e_pc = "verified"
    /\ e_start = e_prev
    /\ e_num >= 2 /\ Len(e_txs) >= 2
    /\ e_entry.transactions = <<>>
    /\ ~e_ok

\* the two-entry slice that continues the chain after entry
SliceOn(entry) == <<entry, Entry_new(entry.id, entry.tick_height, 1, <<>>)>>

\* C20: tick_height is not covered by the hash chain. An entry and the same
\* entry with another tick_height get the same result from Entry::verify
\* and, as a slice of one or followed by its successor, from
\* EntrySlice::verify, against every start hash; Entry::new gives the same
\* id for every tick_height.
TickHeightNotCovered ==
    /\ e_pc = "verified" =>
           \A h \in TickHeights :
               /\ Entry_verify(Retick(e_entry, h), e_start) = e_ok
               /\ EntrySlice_verify(<<Retick(e_entry, h)>>, e_start) = e_ok
               /\ EntrySlice_verify(SliceOn(Retick(e_entry, h)), e_start)
                      = e_ok
    /\ (e_origin = "reticked" /\ e_pc = "verified") =>
           (e_ok <=> e_start = e_prev)
    /\ (e_origin \in {"new", "reticked"} /\ e_pc \in {"built", "verified"}) =>
           \A h \in TickHeights :
               Entry_new(e_prev, h, e_num, e_txs).id = e_entry.id

TickHeightNotCoveredWitness ==
    /\ e_origin = "reticked" /\ e_pc = "verified"
    /\ e_tick = 0 /\ e_entry.tick_height = 257
    /\ e_txs # <<>>
    /\ e_start = e_prev /\ e_ok

\* C10, as claimed: an entry with num_hashes = 0 verifies only as the no-op,
\* that is, only when it has no transactions and its id is the start hash.
ZeroHashesOnlyNoOp ==
    (e_pc = "verified" /\ e_entry.num_hashes = 0) =>
        (e_ok <=> (e_entry.transactions = <<>> /\ e_entry.id = e_start))

(***************************************************************************)
(* Properties of slice verification (SpecVerify).                           *)
(***************************************************************************)
\* pair-wise verification, one entry after the other
RECURSIVE SerialVerify(_, _, _)
SerialVerify(es, prev, i) ==
    IF i > Len(es) THEN TRUE
    ELSE IF ~Entry_verify(es[i], prev) THEN FALSE
    ELSE SerialVerify(es, es[i].id, i + 1)

\* C5: parallel-verify equivalence. Whatever order the pairs are checked in
\* and wherever `all` stops, EntrySlice::verify returns what verifying the
\* entries one after the other returns, each against the claimed id of the
\* one before and the first against start_hash; the empty slice verifies.
ParallelVerifyEquivalence ==
    v_pc = "done" =>
        /\ v_result = SerialVerify(v_entries, v_start, 1)
        /\ v_entries = <<>> => v_result

ParallelVerifyWitness ==
    /\ v_pc = "done"
    /\ Len(v_entries) = 3
    /\ v_checked = {3}
    /\ ~v_result
    /\ Entry_verify(v_entries[1], v_start)

\* C15: slice tamper detection. In a slice that verified against
\* start_hash, replacing the id of one entry, at any position, by a
\* different hash makes EntrySlice::verify(start_hash) return false,
\* whatever order the pairs are checked in.
TamperDetected ==
    (v_tampered # 0 /\ v_pc = "done") => ~v_result

TamperDetectedWitness ==
    /\ v_pc = "done"
    /\ Len(v_entries) = 3
    /\ v_tampered = 3
    /\ Entry_is_tick(v_entries[3])
    /\ EntrySlice_verify(SubSeq(v_entries, 1, 2), v_start)
    /\ ~v_result

(***************************************************************************)
(* Properties of calls in a row (SpecCalls).                                *)
(***************************************************************************)
\* C28: state hand-over. When Entry::new_mut or next_entries_mut returns,
\* start_hash is the id of the last entry emitted and num_hashes is 0; the
\* entries of all calls made in a row on the state, one after the other,
\* verify against the start_hash before the first call.
StateHandOver ==
    /\ k_pc = "returned" =>
           /\ k_ledger # <<>>
           /\ k_hash = k_ledger[Len(k_ledger)].id
           /\ k_num = 0
    /\ EntrySlice_verify(k_ledger, k_first)

StateHandOverWitness ==
    /\ k_pc = "returned"
    /\ k_calls = 2
    /\ k_first = One
    /\ Len(k_ledger) = 4
    /\ k_ledger[3].num_hashes = 2
    /\ EntrySlice_verify(k_ledger, k_first)

(***************************************************************************)
(* Properties of the publication channel (SpecChannel).                     *)
(***************************************************************************)
\* C21, as claimed: the channel has a capacity that the number of batches
\* queued and not yet received never exceeds, the producer blocking when
\* it is reached; here, any capacity below the MaxBatches batches the
\* producer is followed for.
BoundedChannel == Len(ch_queue) < MaxBatches

(***************************************************************************)
(* Properties of the system contract (SpecSystem).                          *)
(***************************************************************************)
\* the sum of the two balances
Balance(accts) == accts[1].tokens + accts[2].tokens

\* the last instruction was a CreateAccount
Created == s_count >= 1 /\ s_call.op = "CreateAccount"

\* the destination was allocated, or owned by another contract, before the
\* last instruction
DestTaken ==
    \/ s_before[2].userdata # <<>>
    \/ s_before[2].contract_id # SYSTEM_CONTRACT_ID

\* the last instruction was a CreateAccount that passed its checks
CreatePassed ==
    /\ Created
    /\ s_before[1].contract_id = SYSTEM_CONTRACT_ID
    /\ ~(s_call.space > 0 /\ DestTaken)

\* the last instruction moves tokens
Moving == (s_count >= 1 /\ s_call.op = "Move") \/ CreatePassed

\* the tokens went from accounts[0] to accounts[1]
Moved ==
    /\ s_accounts[1].tokens = s_before[1].tokens - s_call.tokens
    /\ s_accounts[2].tokens = s_before[2].tokens + s_call.tokens

\* C22, as claimed: a Move, and a CreateAccount that passes its checks,
\* take the instruction's tokens from accounts[0] and give them to
\* accounts[1]; the sum of the two balances stays what it was at first.
TokensConserved ==
    /\ Moving => Moved
    /\ Balance(s_accounts) = Balance(s_first)

\* the last transfer stayed within the range of tokens
InRange ==
    /\ Representable(s_before[1].tokens - s_call.tokens)
    /\ Representable(s_before[2].tokens + s_call.tokens)

\* what does hold: when neither the debit nor the credit overflows the
\* tokens go from accounts[0] to accounts[1] and the sum of the balances
\* stays; as long as no transaction has panicked the sum equals its first
\* value modulo two to the width of tokens
TokensConservedInRange ==
    /\ (Moving /\ InRange) =>
           /\ s_pc = "ready"
           /\ Moved
           /\ Balance(s_accounts) = Balance(s_before)
    /\ s_pc = "ready" =>
           Wrap(Balance(s_accounts)) = Wrap(Balance(s_first))

\* C23: a CreateAccount from a source that the system contract does not
\* own changes nothing: tokens, contract_id and userdata of both accounts
\* stay, whatever tokens, space and contract_id it carries.
WrongSourceNoOp ==
    (Created /\ s_before[1].contract_id # SYSTEM_CONTRACT_ID) =>
        s_accounts = s_before /\ s_pc = "ready"

WrongSourceNoOpWitness ==
    /\ Created
    /\ s_before[1].contract_id = "from"
    /\ ~DestTaken
    /\ s_before[1].tokens = 1
    /\ s_call = CreateAccount(1, 2, "to")
    /\ s_accounts = s_before

\* C24: a CreateAccount with space > 0 onto a destination that has
\* userdata, or that the system contract does not own, changes nothing: no
\* tokens move, the destination's userdata and contract_id stay.
TakenDestNoOp ==
    (Created /\ s_call.space > 0 /\ DestTaken) =>
        s_accounts = s_before /\ s_pc = "ready"

TakenDestNoOpWitness ==
    /\ Created
    /\ s_before[1].contract_id = SYSTEM_CONTRACT_ID
    /\ s_before[1].tokens = 1
    /\ s_before[2].contract_id = "to" /\ s_before[2].userdata = <<>>
    /\ s_call = CreateAccount(1, 1, "none")
    /\ s_accounts = s_before

\* C25: a CreateAccount with space > 0 that passes its checks and returns
\* leaves the destination with userdata of `space` zero bytes and with the
\* contract_id it carries (the one it had when it carries none); userdata
\* and contract_id of the source stay.
Allocated ==
    (CreatePassed /\ s_call.space > 0 /\ s_pc = "ready") =>
        /\ Len(s_accounts[2].userdata) = s_call.space
        /\ \A i \in 1..s_call.space : s_accounts[2].userdata[i] = 0
        /\ s_accounts[2].contract_id =
               IF s_call.contract_id = "none" THEN s_before[2].contract_id
               ELSE s_call.contract_id
        /\ s_accounts[1].userdata = s_before[1].userdata
        /\ s_accounts[1].contract_id = s_before[1].contract_id

AllocatedWitness ==
    /\ CreatePassed /\ s_pc = "ready"
    /\ s_call = CreateAccount(0, 1, "to")
    /\ s_first = <<Account_default, Account_default>>
    /\ s_count = 1
    /\ Len(s_accounts[2].userdata) = 1
    /\ s_accounts[2].contract_id = "to"

\* the last instruction was an Assign
Assigned == s_count >= 1 /\ s_call.op = "Assign"

\* what Assign does and leaves alone
AssignEffect ==
    Assigned =>
        /\ s_pc = "ready"
        /\ s_accounts[1].contract_id =
               IF s_before[1].contract_id = SYSTEM_CONTRACT_ID
               THEN s_call.contract_id
               ELSE s_before[1].contract_id
        /\ s_accounts[1].tokens = s_before[1].tokens
        /\ s_accounts[1].userdata = s_before[1].userdata
        /\ s_accounts[2] = s_before[2]

\* an Assign on an account another contract owns leaves its contract_id
AssignSticks ==
    (s_accounts[1].contract_id # SYSTEM_CONTRACT_ID /\ s_call'.op = "Assign")
        => s_accounts'[1].contract_id = s_accounts[1].contract_id

\* C26: Assign sets accounts[0].contract_id to the id it carries exactly when
\* the system contract owns the account; once the account is assigned to
\* another contract every later Assign leaves its contract_id; Assign never
\* changes tokens or userdata.
AssignOnce == []AssignEffect /\ [][AssignSticks]_vars

AssignOnceWitness ==
    /\ Assigned
    /\ s_count = 3
    /\ s_first[1].contract_id = SYSTEM_CONTRACT_ID
    /\ s_before[1].contract_id = "to"
    /\ s_call = Assign("from")
    /\ s_accounts[1].contract_id = "to"

\* C32, as claimed: a CreateAccount with space 0 that passes its checks
\* and returns leaves the userdata the destination held.
SpaceZeroKeepsUserdata ==
    (CreatePassed /\ s_call.space = 0 /\ s_pc = "ready") =>
        s_accounts[2].userdata = s_before[2].userdata

\* a CreateAccount with space 0 that passes its checks leaves the
\* destination without userdata, whatever it held
SpaceZeroEmptiesUserdata ==
    (CreatePassed /\ s_call.space = 0 /\ s_pc = "ready") =>
        s_accounts[2].userdata = <<>>

\* no balance is negative
NonNegative(accts) == \A i \in 1..2 : accts[i].tokens >= 0

\* the last instruction was a Move or a CreateAccount of tokens >= 0
MovedSome ==
    /\ s_count >= 1
    /\ s_call.op \in {"Move", "CreateAccount"}
    /\ s_call.tokens >= 0

\* C33, as claimed: a Move or a CreateAccount of tokens >= 0 on accounts
\* without a negative balance leaves no balance negative.
BalancesNonNegative ==
    (MovedSome /\ NonNegative(s_before)) => NonNegative(s_accounts)

(***************************************************************************)
(* Properties of num_will_fit (SpecFit).                                    *)
(***************************************************************************)
\* the longest prefix of the list that fits a blob
LongestFit(txs) ==
    CHOOSE n \in 0..Len(txs) :
        /\ PrefixFits(txs, n)
        /\ \A m \in (n + 1)..Len(txs) : ~PrefixFits(txs, m)

\* C31, as claimed: num_will_fit returns 0 for the empty list and
\* otherwise the largest n <= transactions.len() whose prefix fits
\* BLOB_DATA_SIZE; the prefix it reports fits in a blob.
NumWillFitLongest ==
    f_pc = "returned" =>
        /\ f_txs = <<>> => f_num = 0
        /\ f_num = LongestFit(f_txs)
        /\ PrefixFits(f_txs, f_num)

\* when the first transaction fits a blob, num_will_fit returns the
\* length of the longest prefix that fits; when it does not, it returns 1
NumWillFitWhenFirstFits ==
    f_pc = "returned" =>
        f_num = IF f_txs # <<>> /\ ~PrefixFits(f_txs, 1) THEN 1
                ELSE LongestFit(f_txs)

\* the loop of num_will_fit ends
NumWillFitReturns == (f_pc = "loop") ~> (f_pc = "returned")

(***************************************************************************)
(* Properties of create_and_fund_vote_account (SpecVote, FairSpecVote).     *)
(***************************************************************************)
\* the send, the signature poll and the balance poll of the iteration all
\* succeeded
AllThree ==
    a_attempt = [send |-> "ok", sig |-> "ok", bal |-> "ok"]

\* a call of the iteration failed
OneFailed == "err" \in {a_attempt.send, a_attempt.sig, a_attempt.bal}

\* the function is in its creation loop
InLoop ==
    a_pc \in {"loop", "send", "poll_signature", "poll_balance", "sleep"}

\* the creation loop was entered and left
LeftLoop == a_entered /\ a_pc \in {"check", "done"}

\* the loop is left only after an iteration in which all three calls
\* succeeded, and nothing is returned from inside it
LeavesOnSuccess ==
    /\ LeftLoop => AllThree
    /\ InLoop => a_entered /\ a_ret = "none"
    /\ (a_entered /\ a_ret # "none") => (a_pc = "done" /\ AllThree)

\* a failed call is followed by the sleep of 2 seconds, the sleep by the
\* top of the loop, and a send carries the last_id fetched in its iteration
\* and, after the first, comes 2 seconds after the one before
Resubmits ==
    /\ (a_pc \in {"send", "poll_signature", "poll_balance"} /\ OneFailed')
           => a_pc' = "sleep"
    /\ a_pc = "sleep" =>
           (OneFailed /\ a_pc' = "loop" /\ a_pause' = a_pause + PauseSecs)
    /\ a_pc = "loop" =>
           (a_pc' = "send" /\ a_tx'.last_id = a_last_id'
            /\ a_tx'.from = NodeKey /\ a_tx'.vote_account = VoteAccount)
    /\ (a_pc = "send" /\ a_attempts > 0) => a_pause = PauseSecs
    /\ a_pc = "send" =>
           (a_attempts' = IF a_attempts < MaxAttempts THEN a_attempts + 1
                          ELSE a_attempts)

\* C34: vote account creation retry. In its creation loop
\* create_and_fund_vote_account sends a vote_account_new transaction made
\* with a last_id fetched in the same iteration; after an iteration in
\* which the send, the signature poll or the balance poll fails it sleeps
\* 2 seconds and sends again; it leaves the loop only after an iteration in
\* which all three succeed, and then returns; while none does it keeps
\* sending and returns nothing.
VoteRetry ==
    /\ []LeavesOnSuccess
    /\ [][Resubmits]_vars
    /\ (a_pc = "sleep") ~> (a_pc = "send" /\ a_pause = PauseSecs)
    /\ (a_pc = "send") ~> (a_pc = "sleep" \/ AllThree)
    /\ (InLoop /\ AllThree) ~> (a_pc = "done")
    /\ LeftLoop ~> (a_pc = "done")
    /\ (<>a_entered /\ [](a_entered => ~AllThree))
           => ([]<>(a_pc = "send") /\ [](a_ret = "none"))

VoteRetryWitness ==
    /\ a_pc = "done"
    /\ a_entered
    /\ a_attempts = MaxAttempts
    /\ a_pause = 0
    /\ AllThree

\* the userdata answered is that of a vote state of this node
OwnVoteState ==
    /\ a_userdata.asked /\ a_userdata.ok /\ a_userdata.some
    /\ a_userdata.data = VoteUserdata(NodeKey)

\* C35: create_and_fund_vote_account returns Ok only when the userdata of
\* the vote account is there and deserializes to a vote state whose
\* node_id is the public key of the node; in every other case it returns
\* an error, also after the creation transaction was confirmed.
OkOnlyIfRegistered ==
    /\ a_pc = "done" <=> a_ret \in {"ok", "err"}
    /\ a_ret = "ok" <=> (a_pc = "done" /\ OwnVoteState)

OkOnlyIfRegisteredWitness ==
    /\ a_pc = "done"
    /\ a_entered /\ AllThree
    /\ a_userdata.some
    /\ a_userdata.data = VoteUserdata(OtherKey)
    /\ a_ret = "err"

(***************************************************************************)
(* Specifications.                                                          *)
(***************************************************************************)

\* the producer before any call, with nothing else going on
IdleProducer ==
    /\ InitProducer
    /\ start_hash = Zero
    /\ num_hashes = 0

\* the accounts before any transaction, in a build without overflow checks
IdleSystem ==
    /\ InitSystem
    /\ s_build = "release"
    /\ s_accounts = <<Account_default, Account_default>>

\* no calls in a row yet
IdleCalls == InitCalls

\* num_will_fit not called
IdleFit == InitFit

\* create_and_fund_vote_account not called
IdleVote == InitVote

\* the parts of the state a specification leaves alone
Elsewhere ==
    InitChannel /\ IdleSystem /\ IdleCalls /\ IdleFit /\ IdleVote

Init == InitProducer /\ InitEntry /\ InitVerify /\ Elsewhere

Next ==
    \/ EntryNewCall
    \/ EntryNewMutCall
    \/ NextEntriesMutCall
    \/ WhileTest
    \/ SearchStep
    \/ PushEntry
    \/ ToBlobs
    \/ ReceiveBlobs
    \/ Reconstruct
    \/ VerifyReconstructed

\* the producer and the framing of what it emits
Spec == Init /\ [][Next]_vars

\* the producer as a running thread: a call that has started takes its
\* next step
FairSpec == Spec /\ WF_vars(WhileTest \/ SearchStep \/ PushEntry)

InitE == IdleProducer /\ InitEntry /\ InitVerify /\ Elsewhere

NextE ==
    \/ EntryNew
    \/ EntryFromPeer
    \/ SwapTransactions
    \/ StripTransactions
    \/ RetickEntry
    \/ EntryVerify

\* one entry built, tampered with and verified
SpecEntry == InitE /\ [][NextE]_vars

InitV == IdleProducer /\ InitEntry /\ InitVerify /\ Elsewhere

NextV ==
    \/ SliceAppend
    \/ SliceVerifyCall
    \/ CheckPair
    \/ SliceVerifyReturn
    \/ TamperId

\* one slice verified by the worker pool
SpecVerify == InitV /\ [][NextV]_vars

InitC ==
    /\ IdleProducer /\ InitEntry /\ InitVerify
    /\ InitChannel /\ IdleSystem /\ IdleCalls
    /\ IdleFit /\ IdleVote

NextC ==
    \/ ChannelSend
    \/ ChannelRecv

\* a producer and a consumer on the publication channel
SpecChannel == InitC /\ [][NextC]_vars

InitS ==
    /\ IdleProducer /\ InitEntry /\ InitVerify
    /\ InitChannel /\ InitSystem /\ IdleCalls
    /\ IdleFit /\ IdleVote

NextS ==
    \/ ProcessTransaction

\* system contract transactions processed one after the other
SpecSystem == InitS /\ [][NextS]_vars

InitK ==
    /\ IdleProducer /\ InitEntry /\ InitVerify
    /\ InitChannel /\ IdleSystem /\ InitCalls
    /\ IdleFit /\ IdleVote

NextK ==
    \/ CountHash
    \/ CallNextEntriesMut
    \/ CallNewMut

\* calls in a row on one producer state
SpecCalls == InitK /\ [][NextK]_vars

InitF ==
    /\ IdleProducer /\ InitEntry /\ InitVerify
    /\ InitChannel /\ IdleSystem /\ IdleCalls
    /\ InitFit /\ IdleVote

NextF ==
    \/ NumWillFitCall
    \/ NumWillFitLoop

\* one call of num_will_fit
SpecFit == InitF /\ [][NextF]_vars

\* the call as a running thread
FairSpecFit == SpecFit /\ WF_vars(NumWillFitLoop)

InitA ==
    /\ IdleProducer /\ InitEntry /\ InitVerify
    /\ InitChannel /\ IdleSystem /\ IdleCalls
    /\ IdleFit /\ InitVote

NextA ==
    \/ PollNodeBalance
    \/ PollVoteBalance
    \/ GetLastId
    \/ TransferSigned
    \/ PollForSignature
    \/ PollCreatedBalance
    \/ SleepTwoSeconds
    \/ CheckRegistration

\* one call of create_and_fund_vote_account
SpecVote == InitA /\ [][NextA]_vars

\* the call as a running thread whose client calls return
FairSpecVote == SpecVote /\ WF_vars(NextA)

=============================================================================
